---- MODULE Spec2Model ----
(***************************************************************************)
(* Model of the ERPNext importer (src/main.py): the column-to-field        *)
(* mapping state machine of ERPNextImporterApp and its batch import loop.  *)
(*                                                                         *)
(* Text is modelled as a sequence of one-character strings, so that        *)
(* lower-casing, replacement, regular-expression stripping and substring   *)
(* tests are computed, not assumed.  A character outside ASCII is written  *)
(* as its base letter followed by a colon: "a:" is a-umlaut, "s:" is the   *)
(* sharp s.  Target-field keys, import types and modes are plain strings.  *)
(***************************************************************************)
EXTENDS Integers, Sequences, FiniteSets, TLC

(* ------------------------------ text ---------------------------------- *)

UpperChars ==
  <<"A","B","C","D","E","F","G","H","I","J","K","L","M","N","O","P","Q","R","S",
    "T","U","V","W","X","Y","Z","A:","O:","U:">>

LowerChars ==
  <<"a","b","c","d","e","f","g","h","i","j","k","l","m","n","o","p","q","r","s",
    "t","u","v","w","x","y","z","a:","o:","u:">>

Digits == {"0","1","2","3","4","5","6","7","8","9"}

\* str.lower() on one character
LowerChar(c) ==
  IF \E i \in 1..Len(UpperChars) : UpperChars[i] = c
  THEN LowerChars[CHOOSE i \in 1..Len(UpperChars) : UpperChars[i] = c]
  ELSE c

\* str.lower()
Lower(s) == [i \in 1..Len(s) |-> LowerChar(s[i])]

\* str.replace(old, new) for a one-character old and new
ReplaceChar(s, old, new) == [i \in 1..Len(s) |-> IF s[i] = old THEN new ELSE s[i]]

\* the characters re.sub(r'[^a-z0-9_]', '', s) keeps
IsRuleChar(c) ==
  \/ c \in Digits
  \/ c = "_"
  \/ \E i \in 1..26 : LowerChars[i] = c

\* Python's "a in b" on strings
IsSubstring(a, b) ==
  \E i \in 0..(Len(b) - Len(a)) : SubSeq(b, i + 1, i + Len(a)) = a

(* --------------------------- field catalog ---------------------------- *)

ERPNEXT_ITEM_FIELDS ==
  {"item_code", "item_name", "item_group", "category_level_1",
   "category_level_2", "category_level_3", "category_level_4", "category_path",
   "description", "description_html", "stock_uom", "is_stock_item",
   "disabled", "standard_rate", "standard_rate_brutto", "valuation_rate",
   "gtin", "barcode", "manufacturer_part_no", "brand",
   "manufacturer", "weight_per_unit", "item_length", "item_width",
   "item_height", "country_of_origin", "customs_tariff_number", "seo_title",
   "seo_meta_description", "seo_keywords", "seo_url_slug", "delivery_time",
   "show_in_website", "has_variants", "variant_of", "jattr_farbe",
   "jattr_material", "jattr_groesse", "jattr_regalsystem", "jattr_fachlast",
   "jattr_feldlast", "jattr_gesamtbreite_mm", "jattr_gesamthoehe_mm", "jattr_bauweise",
   "jattr_bodentyp", "jattr_anzahl_boeden", "jattr_custom"}

ERPNEXT_ITEM_GROUP_FIELDS ==
  {"item_group_name", "parent_item_group", "description", "seo_title",
   "seo_meta_description", "seo_keywords"}

ERPNEXT_ATTRIBUTE_FIELDS ==
  {"attribute_name", "attribute_values", "numeric_values", "from_range",
   "to_range", "increment"}

ERPNEXT_VARIANT_FIELDS ==
  {"item_code", "variant_of", "item_name", "attribute_color",
   "attribute_size", "attribute_material", "attribute_1", "attribute_2",
   "attribute_3", "standard_rate", "gtin"}


\* the target catalog update_mapping_list offers for an import type
TargetFields(import_type) ==
  IF import_type = "kategorien" THEN ERPNEXT_ITEM_GROUP_FIELDS
  ELSE IF import_type = "attribute" THEN ERPNEXT_ATTRIBUTE_FIELDS
  ELSE IF import_type = "varianten" THEN ERPNEXT_VARIANT_FIELDS
  ELSE ERPNEXT_ITEM_FIELDS

ImportTypes == {"artikel", "kategorien", "preise", "attribute", "varianten"}

AUTO_MAPPING_RULES ==
  <<
    <<<<"a","r","t","i","k","e","l","n","u","m","m","e","r">>, "item_code">>,
    <<<<"a","r","t","i","k","e","l","n","a","m","e">>, "item_name">>,
    <<<<"a","r","t","i","k","e","l","-","n","r">>, "item_code">>,
    <<<<"a","r","t","i","k","e","l","-","n","a","m","e">>, "item_name">>,
    <<<<"s","k","u">>, "item_code">>,
    <<<<"n","a","m","e">>, "item_name">>,
    <<<<"b","e","z","e","i","c","h","n","u","n","g">>, "item_name">>,
    <<<<"p","r","o","d","u","k","t","n","a","m","e">>, "item_name">>,
    <<<<"b","e","s","c","h","r","e","i","b","u","n","g">>, "description">>,
    <<<<"b","e","s","c","h","r","e","i","b","u","n","g"," ","(","h","t","m","l",")">>, "description">>,
    <<<<"k","u","r","z","b","e","s","c","h","r","e","i","b","u","n","g">>, "description">>,
    <<<<"l","a","n","g","b","e","s","c","h","r","e","i","b","u","n","g">>, "description">>,
    <<<<"a","r","t","i","k","e","l","b","e","s","c","h","r","e","i","b","u","n","g">>, "description">>,
    <<<<"a","k","t","i","v">>, "disabled">>,
    <<<<"a","r","t","i","k","e","l"," ","a","k","t","i","v">>, "disabled">>,
    <<<<"d","e","a","k","t","i","v","i","e","r","t">>, "disabled">>,
    <<<<"p","r","e","i","s">>, "standard_rate">>,
    <<<<"v","k"," ","n","e","t","t","o">>, "standard_rate">>,
    <<<<"v","k","_","n","e","t","t","o">>, "standard_rate">>,
    <<<<"n","e","t","t","o","_","v","k">>, "standard_rate">>,
    <<<<"n","e","t","t","o","-","v","k">>, "standard_rate">>,
    <<<<"v","e","r","k","a","u","f","s","p","r","e","i","s">>, "standard_rate">>,
    <<<<"v","e","r","k","a","u","f","s","p","r","e","i","s"," ","n","e","t","t","o">>, "standard_rate">>,
    <<<<"v","k"," ","b","r","u","t","t","o">>, "standard_rate_brutto">>,
    <<<<"v","k","_","b","r","u","t","t","o">>, "standard_rate_brutto">>,
    <<<<"b","r","u","t","t","o","_","v","k">>, "standard_rate_brutto">>,
    <<<<"v","e","r","k","a","u","f","s","p","r","e","i","s"," ","b","r","u","t","t","o">>, "standard_rate_brutto">>,
    <<<<"e","k"," ","n","e","t","t","o">>, "valuation_rate">>,
    <<<<"e","k","_","n","e","t","t","o">>, "valuation_rate">>,
    <<<<"e","i","n","k","a","u","f","s","p","r","e","i","s">>, "valuation_rate">>,
    <<<<"e","i","n","k","a","u","f","s","p","r","e","i","s"," ","n","e","t","t","o">>, "valuation_rate">>,
    <<<<"e","a","n">>, "barcode">>,
    <<<<"e","a","n","/","g","t","i","n">>, "barcode">>,
    <<<<"g","t","i","n">>, "barcode">>,
    <<<<"b","a","r","c","o","d","e">>, "barcode">>,
    <<<<"u","p","c">>, "barcode">>,
    <<<<"i","s","b","n">>, "barcode">>,
    <<<<"h","a","n">>, "manufacturer_part_no">>,
    <<<<"h","e","r","s","t","e","l","l","e","r","a","r","t","i","k","e","l","n","u","m","m","e","r">>, "manufacturer_part_no">>,
    <<<<"h","e","r","s","t","e","l","l","e","r","-","a","r","t","i","k","e","l","n","u","m","m","e","r">>, "manufacturer_part_no">>,
    <<<<"h","e","r","s","t","e","l","l","e","r"," ","a","r","t","i","k","e","l","n","u","m","m","e","r">>, "manufacturer_part_no">>,
    <<<<"h","e","r","s","t","e","l","l","e","r">>, "brand">>,
    <<<<"m","a","r","k","e">>, "brand">>,
    <<<<"b","r","a","n","d">>, "brand">>,
    <<<<"m","a","n","u","f","a","c","t","u","r","e","r">>, "brand">>,
    <<<<"g","e","w","i","c","h","t">>, "weight_per_unit">>,
    <<<<"a","r","t","i","k","e","l","g","e","w","i","c","h","t">>, "weight_per_unit">>,
    <<<<"v","e","r","s","a","n","d","g","e","w","i","c","h","t">>, "weight_per_unit">>,
    <<<<"g","e","w","i","c","h","t"," ","(","k","g",")">>, "weight_per_unit">>,
    <<<<"l","a","e","n","g","e">>, "item_length">>,
    <<<<"l","a:","n","g","e">>, "item_length">>,
    <<<<"l","a:","n","g","e"," ","(","c","m",")">>, "item_length">>,
    <<<<"b","r","e","i","t","e">>, "item_width">>,
    <<<<"b","r","e","i","t","e"," ","(","c","m",")">>, "item_width">>,
    <<<<"h","o","e","h","e">>, "item_height">>,
    <<<<"h","o:","h","e">>, "item_height">>,
    <<<<"h","o:","h","e"," ","(","c","m",")">>, "item_height">>,
    <<<<"w","a","r","e","n","g","r","u","p","p","e">>, "item_group">>,
    <<<<"k","a","t","e","g","o","r","i","e">>, "item_group">>,
    <<<<"a","r","t","i","k","e","l","g","r","u","p","p","e">>, "item_group">>,
    <<<<"k","a","t","e","g","o","r","i","e"," ","e","b","e","n","e"," ","1">>, "category_level_1">>,
    <<<<"k","a","t","e","g","o","r","i","e"," ","e","b","e","n","e"," ","2">>, "category_level_2">>,
    <<<<"k","a","t","e","g","o","r","i","e"," ","e","b","e","n","e"," ","3">>, "category_level_3">>,
    <<<<"k","a","t","e","g","o","r","i","e"," ","e","b","e","n","e"," ","4">>, "category_level_4">>,
    <<<<"k","a","t","e","g","o","r","i","e"," ","(","e","b","e","n","e"," ","1",")">>, "category_level_1">>,
    <<<<"k","a","t","e","g","o","r","i","e"," ","(","e","b","e","n","e"," ","2",")">>, "category_level_2">>,
    <<<<"k","a","t","e","g","o","r","i","e"," ","(","e","b","e","n","e"," ","3",")">>, "category_level_3">>,
    <<<<"k","a","t","e","g","o","r","i","e"," ","(","e","b","e","n","e"," ","4",")">>, "category_level_4">>,
    <<<<"k","a","t","e","g","o","r","i","e","_","e","b","e","n","e","_","1">>, "category_level_1">>,
    <<<<"k","a","t","e","g","o","r","i","e","_","e","b","e","n","e","_","2">>, "category_level_2">>,
    <<<<"k","a","t","e","g","o","r","i","e","_","e","b","e","n","e","_","3">>, "category_level_3">>,
    <<<<"k","a","t","e","g","o","r","i","e","_","e","b","e","n","e","_","4">>, "category_level_4">>,
    <<<<"c","a","t","e","g","o","r","y"," ","l","e","v","e","l"," ","1">>, "category_level_1">>,
    <<<<"c","a","t","e","g","o","r","y"," ","l","e","v","e","l"," ","2">>, "category_level_2">>,
    <<<<"c","a","t","e","g","o","r","y"," ","l","e","v","e","l"," ","3">>, "category_level_3">>,
    <<<<"c","a","t","e","g","o","r","y"," ","l","e","v","e","l"," ","4">>, "category_level_4">>,
    <<<<"k","a","t","e","g","o","r","i","e","p","f","a","d">>, "category_path">>,
    <<<<"k","a","t","e","g","o","r","i","e","_","p","f","a","d">>, "category_path">>,
    <<<<"c","a","t","e","g","o","r","y","_","p","a","t","h">>, "category_path">>,
    <<<<"h","a","u","p","t","k","a","t","e","g","o","r","i","e">>, "category_level_1">>,
    <<<<"u","n","t","e","r","k","a","t","e","g","o","r","i","e">>, "category_level_2">>,
    <<<<"h","e","r","k","u","n","f","t","s","l","a","n","d">>, "country_of_origin">>,
    <<<<"u","r","s","p","r","u","n","g","s","l","a","n","d">>, "country_of_origin">>,
    <<<<"t","a","r","i","c">>, "customs_tariff_number">>,
    <<<<"t","a","r","i","c","-","c","o","d","e">>, "customs_tariff_number">>,
    <<<<"z","o","l","l","t","a","r","i","f","n","u","m","m","e","r">>, "customs_tariff_number">>,
    <<<<"z","o","l","l","t","a","r","i","f">>, "customs_tariff_number">>,
    <<<<"s","e","o"," ","t","i","t","e","l">>, "seo_title">>,
    <<<<"s","e","o","-","t","i","t","e","l">>, "seo_title">>,
    <<<<"t","i","t","e","l","_","t","a","g">>, "seo_title">>,
    <<<<"t","i","t","e","l","-","t","a","g"," ","(","s","e","o",")">>, "seo_title">>,
    <<<<"s","e","o","_","t","i","t","l","e">>, "seo_title">>,
    <<<<"m","e","t","a","_","t","i","t","l","e">>, "seo_title">>,
    <<<<"m","e","t","a"," ","t","i","t","l","e">>, "seo_title">>,
    <<<<"s","e","o"," ","b","e","s","c","h","r","e","i","b","u","n","g">>, "seo_meta_description">>,
    <<<<"s","e","o","-","b","e","s","c","h","r","e","i","b","u","n","g">>, "seo_meta_description">>,
    <<<<"m","e","t","a","_","d","e","s","c","r","i","p","t","i","o","n">>, "seo_meta_description">>,
    <<<<"m","e","t","a"," ","d","e","s","c","r","i","p","t","i","o","n">>, "seo_meta_description">>,
    <<<<"m","e","t","a","-","d","e","s","c","r","i","p","t","i","o","n"," ","(","s","e","o",")">>, "seo_meta_description">>,
    <<<<"s","e","o","_","d","e","s","c","r","i","p","t","i","o","n">>, "seo_meta_description">>,
    <<<<"s","e","o"," ","k","e","y","w","o","r","d","s">>, "seo_keywords">>,
    <<<<"s","e","o","-","k","e","y","w","o","r","d","s">>, "seo_keywords">>,
    <<<<"m","e","t","a","_","k","e","y","w","o","r","d","s">>, "seo_keywords">>,
    <<<<"m","e","t","a"," ","k","e","y","w","o","r","d","s">>, "seo_keywords">>,
    <<<<"m","e","t","a","-","k","e","y","w","o","r","d","s"," ","(","s","e","o",")">>, "seo_keywords">>,
    <<<<"s","u","c","h","b","e","g","r","i","f","f","e">>, "seo_keywords">>,
    <<<<"u","r","l"," ","p","f","a","d">>, "seo_url_slug">>,
    <<<<"u","r","l","-","p","f","a","d">>, "seo_url_slug">>,
    <<<<"u","r","l","_","p","f","a","d">>, "seo_url_slug">>,
    <<<<"u","r","l","_","s","l","u","g">>, "seo_url_slug">>,
    <<<<"s","e","o"," ","u","r","l">>, "seo_url_slug">>,
    <<<<"l","i","e","f","e","r","s","t","a","t","u","s">>, "delivery_time">>,
    <<<<"l","i","e","f","e","r","z","e","i","t">>, "delivery_time">>,
    <<<<"l","i","e","f","e","r","z","e","i","t"," ","t","e","x","t">>, "delivery_time">>,
    <<<<"f","a","r","b","e">>, "jattr_farbe">>,
    <<<<"m","a","t","e","r","i","a","l">>, "jattr_material">>,
    <<<<"g","r","o:","s:","e">>, "jattr_groesse">>,
    <<<<"g","r","o","e","s","s","e">>, "jattr_groesse">>,
    <<<<"r","e","g","a","l","s","y","s","t","e","m">>, "jattr_regalsystem">>,
    <<<<"f","a","c","h","l","a","s","t">>, "jattr_fachlast">>,
    <<<<"f","e","l","d","l","a","s","t">>, "jattr_feldlast">>,
    <<<<"g","e","s","a","m","t","b","r","e","i","t","e">>, "jattr_gesamtbreite_mm">>,
    <<<<"g","e","s","a","m","t","b","r","e","i","t","e"," ","(","m","m",")">>, "jattr_gesamtbreite_mm">>,
    <<<<"g","e","s","a","m","t","h","o:","h","e">>, "jattr_gesamthoehe_mm">>,
    <<<<"g","e","s","a","m","t","h","o:","h","e"," ","(","m","m",")">>, "jattr_gesamthoehe_mm">>,
    <<<<"b","a","u","w","e","i","s","e">>, "jattr_bauweise">>,
    <<<<"b","o","d","e","n","t","y","p">>, "jattr_bodentyp">>,
    <<<<"a","n","z","a","h","l"," ","b","o:","d","e","n">>, "jattr_anzahl_boeden">>,
    <<<<"a","n","z","a","h","l"," ","b","o","e","d","e","n">>, "jattr_anzahl_boeden">>,
    <<<<"i","s","t"," ","v","a","t","e","r","a","r","t","i","k","e","l">>, "has_variants">>,
    <<<<"v","a","t","e","r","a","r","t","i","k","e","l">>, "has_variants">>,
    <<<<"i","d","e","n","t","i","f","i","z","i","e","r","u","n","g","s","s","p","a","l","t","e"," ","v","a","t","e","r","a","r","t","i","k","e","l">>, "variant_of">>,
    <<<<"v","a","r","i","a","n","t","e"," ","v","o","n">>, "variant_of">>,
    <<<<"l","a","g","e","r","b","e","s","t","a","n","d">>, "opening_stock">>,
    <<<<"b","e","s","t","a","n","d">>, "opening_stock">>,
    <<<<"v","e","r","f","u:","g","b","a","r">>, "opening_stock">>,
    <<<<"k","a","t","e","g","o","r","i","e","n","a","m","e">>, "item_group_name">>,
    <<<<"o","b","e","r","k","a","t","e","g","o","r","i","e">>, "parent_item_group">>
  >>

(* ----------------------------- auto-mapping --------------------------- *)

\* "k in AUTO_MAPPING_RULES"
InRules(k) == \E i \in 1..Len(AUTO_MAPPING_RULES) : AUTO_MAPPING_RULES[i][1] = k

\* "AUTO_MAPPING_RULES[k]"
RuleTarget(k) ==
  AUTO_MAPPING_RULES[CHOOSE i \in 1..Len(AUTO_MAPPING_RULES) : AUTO_MAPPING_RULES[i][1] = k][2]

\* source_col.lower().replace(" ", "_").replace("-", "_")
ColLower(source_col) == ReplaceChar(ReplaceChar(Lower(source_col), " ", "_"), "-", "_")

\* re.sub(r'[^a-z0-9_]', '', col_lower)
ColNormalized(source_col) == SelectSeq(ColLower(source_col), IsRuleChar)

\* the rules, in table order, the fuzzy search of _create_mapping_row accepts
RowFuzzyHits(col_lower) ==
  {i \in 1..Len(AUTO_MAPPING_RULES) :
     \/ IsSubstring(AUTO_MAPPING_RULES[i][1], col_lower)
     \/ IsSubstring(col_lower, AUTO_MAPPING_RULES[i][1])}

\* the rules, in table order, the fuzzy search of auto_map_fields accepts
ActionFuzzyHits(col_lower) ==
  {i \in 1..Len(AUTO_MAPPING_RULES) : IsSubstring(AUTO_MAPPING_RULES[i][1], col_lower)}

\* the target of the first rule (lowest index) of a set of rules, "" for none
FirstHit(hits) ==
  IF hits = {} THEN ""
  ELSE AUTO_MAPPING_RULES[CHOOSE i \in hits : \A j \in hits : i <= j][2]

\* auto_target of _create_mapping_row
RowAutoTarget(source_col) ==
  IF InRules(ColLower(source_col)) THEN RuleTarget(ColLower(source_col))
  ELSE IF InRules(ColNormalized(source_col)) THEN RuleTarget(ColNormalized(source_col))
  ELSE FirstHit(RowFuzzyHits(ColLower(source_col)))

\* target of auto_map_fields, before the used_targets test
ActionAutoTarget(source_text) ==
  IF InRules(ColLower(source_text)) THEN RuleTarget(ColLower(source_text))
  ELSE IF InRules(ColNormalized(source_text)) THEN RuleTarget(ColNormalized(source_text))
  ELSE FirstHit(ActionFuzzyHits(ColLower(source_text)))

(* ------------------------------ state --------------------------------- *)

VARIABLES
  source_file,      \* ERPNextImporterApp.source_file: "" for None, else the file's name
  source_columns,   \* ERPNextImporterApp.source_columns: the column names, in file order
  source_data,      \* ERPNextImporterApp.source_data: the rows
  import_type,      \* import_type.value
  field_mappings,   \* ERPNextImporterApp.field_mappings: a dict, kept in insertion order
  mapping_list,     \* mapping_list.controls: one row per column, with its target dropdown
  log_entries,      \* what the handler that ran last has logged
  template_file,    \* the template JSON file on disk, NoTemplate before the first save
  gemini,           \* whether the AI advisor is configured
  ai_thread,        \* the AI mapping thread between its request and the reply
  start_button_disabled,  \* start_button.disabled
  last,             \* the handler that ran last, its arguments and what it computed
  steps,            \* the number of handlers that have run
  import_mode,      \* import_mode.value
  dry_run,          \* dry_run.value
  api,              \* whether ERPNextImporterApp.api is an ERPNextAPI object (not None)
  item_cache,       \* ERPNextAPI._item_cache: the item codes it holds
  item_group_cache, \* ERPNextAPI._item_group_cache: the group names it holds
  remote_items,     \* the item codes of the remote system
  remote_groups,    \* the item group names of the remote system
  is_importing,     \* ERPNextImporterApp.is_importing
  workers,          \* the _run_import threads: their locals and their place in the loop
  calls,            \* the calls of ERPNextAPI methods so far, in order
  progress,         \* the progress reports so far, in order
  last_row,         \* the row a worker processed last and what became of it
  config,           \* ERPNextConfig: default_tax_rate, in percent
  csv_options       \* csv_delimiter.value, csv_encoding.value and skip_header.value

mapvars ==
  <<source_file, source_columns, source_data, import_type, field_mappings,
    mapping_list, log_entries, template_file, gemini, ai_thread,
    start_button_disabled, last, steps>>

impvars ==
  <<import_mode, dry_run, api, item_cache, item_group_cache, remote_items,
    remote_groups, is_importing, workers, calls, progress, last_row, config>>

vars == <<mapvars, impvars, csv_options>>

\* no import is configured, started or running
ImportIdle == UNCHANGED impvars

(* ------------------------------ inputs -------------------------------- *)

ColSKU == <<"S","K","U">>
ColArtikelnummer == <<"A","r","t","i","k","e","l","n","u","m","m","e","r">>
ColKat == <<"K","a","t">>
ColPreisBang == <<"P","r","e","i","s","!">>
ColNettoPreis == <<"N","e","t","t","o"," ","P","r","e","i","s">>
ColXyz == <<"x","y","z">>
ColArtikelNr == <<"A","r","t","i","k","e","l","-","N","r">>
ColVKBrutto == <<"V","K"," ","B","r","u","t","t","o">>
ColEAN == <<"E","A","N">>
ColKategorie == <<"K","a","t","e","g","o","r","i","e">>

\* the source files a user can pick
FileNames == {"a.csv", "b.csv"}

\* the header row of a file
FileColumns(f) ==
  IF f = "a.csv" THEN <<ColSKU, ColArtikelnummer, ColKat>>
  ELSE <<ColPreisBang, ColNettoPreis, ColXyz>>

\* the data rows of a file
FileRows(f) ==
  IF f = "a.csv"
  THEN <<(ColSKU :> <<"A","1">>) @@ (ColArtikelnummer :> <<"A","1">>) @@ (ColKat :> <<"M">>),
         (ColSKU :> <<"B","2">>) @@ (ColArtikelnummer :> <<"B","2">>) @@ (ColKat :> <<>>)>>
  ELSE <<(ColPreisBang :> <<"1">>) @@ (ColNettoPreis :> <<"1">>) @@ (ColXyz :> <<"g">>)>>

\* the header row and the one data row of the article export "export.csv"
ScenarioColumns == <<ColArtikelNr, ColVKBrutto, ColEAN, ColKategorie>>

ScenarioRow ==
  (ColArtikelNr :> <<"S","K","U","1">>)
  @@ (ColVKBrutto :> <<"1","1","9",",","0","0">>)
  @@ (ColEAN :> <<"4","0","0","6","3","8","1","3","3","3","9","3","1">>)
  @@ (ColKategorie :> <<"M","ö","b","e","l"," ",">"," ","R","e","g","a","l","e">>)

\* the targets a user picks by hand in a run of the model
ManualTargets ==
  {"", "item_code", "standard_rate", "item_group_name"}

\* the replies of the AI advisor: a failed request, an unparsable reply, or a
\* JSON object of at most MaxSuggest pairs (its keys are distinct)
MaxSuggest == 2
ColNone == <<"n","o","n","e">>
AiSources == {ColSKU, ColArtikelnummer, ColNone}
AiTargets == {"item_code", "item_group_name", "bogus"}
AiPairs == [source : AiSources, target : AiTargets]
AiReplies ==
  {[kind |-> "failed", pairs |-> <<>>], [kind |-> "garbage", pairs |-> <<>>]}
  \cup {[kind |-> "json", pairs |-> p] :
          p \in {q \in UNION {[1..n -> AiPairs] : n \in 0..MaxSuggest} :
                   \A i, j \in 1..Len(q) : q[i].source = q[j].source => i = j}}

\* the handlers a run of the model executes
MaxSteps == 5

\* one more handler runs
Step == steps < MaxSteps /\ steps' = steps + 1

\* every column name of the model
ColumnUniverse ==
  {ColSKU, ColArtikelnummer, ColKat, ColPreisBang, ColNettoPreis, ColXyz, ColNone,
   ColArtikelNr, ColVKBrutto, ColEAN, ColKategorie}

\* RowAutoTarget and ActionAutoTarget of every column name, computed once
RowAutoTable == [c \in ColumnUniverse |-> RowAutoTarget(c)]
ActionAutoTable == [c \in ColumnUniverse |-> ActionAutoTarget(c)]

(* ------------------------------ helpers ------------------------------- *)

\* FieldMapping(source_column=..., target_field=...) with the dataclass defaults
FieldMapping(source_column, target_field) ==
  [source_column |-> source_column, target_field |-> target_field,
   transform |-> "none", default_value |-> <<>>]

\* "k in d" for the dict d
HasKey(d, k) == \E i \in 1..Len(d) : d[i].source_column = k

\* "d[k]"
Get(d, k) == d[CHOOSE i \in 1..Len(d) : d[i].source_column = k]

\* "d[k] = v": a present key keeps its place, a new key goes last
DictSet(d, k, v) ==
  IF HasKey(d, k)
  THEN [i \in 1..Len(d) |-> IF d[i].source_column = k THEN v ELSE d[i]]
  ELSE Append(d, v)

\* "del d[k]"
DictDel(d, k) == SelectSeq(d, LAMBDA m : m.source_column # k)

\* the CSV options as the widgets are built (lines 1645-1671)
DefaultCsvOptions ==
  [csv_delimiter |-> ";", csv_encoding |-> "utf-8-sig", skip_header |-> TRUE]

\* one entry of the log
LogEntry(msg, error, params) == [msg |-> msg, error |-> error, params |-> params]

NoParams == [none |-> ""]

\* the row of mapping_list whose dropdown mapping_dropdowns[col] refers to:
\* _create_mapping_row overwrites the entry, so the last row of that name
DropdownRow(ml, col) ==
  CHOOSE i \in 1..Len(ml) :
    /\ ml[i].source_text = col
    /\ \A j \in 1..Len(ml) : ml[j].source_text = col => j <= i

NoTemplate == [name |-> "", import_type |-> "", file_format |-> "", mappings |-> <<>>,
               csv_delimiter |-> "", csv_encoding |-> "", skip_first_row |-> FALSE,
               created_at |-> ""]

NoThread == [running |-> FALSE, source_columns |-> <<>>, import_type |-> ""]

Last(op, col, target, pre, auto, accepted) ==
  [op |-> op, col |-> col, target |-> target, pre |-> pre, auto |-> auto,
   ai |-> <<>>, accepted |-> accepted]

(* ------------------------- mapping operations ------------------------- *)

\* _create_mapping_row: the dict after the row's auto-mapping was stored
create_mapping_row(fm, source_col) ==
  IF RowAutoTable[source_col] # ""
  THEN DictSet(fm, source_col, FieldMapping(source_col, RowAutoTable[source_col]))
  ELSE fm

\* update_mapping_list: field_mappings after a row was created for every column
RECURSIVE CreateRows(_, _, _)
CreateRows(cols, i, fm) ==
  IF i > Len(cols) THEN fm
  ELSE CreateRows(cols, i + 1, create_mapping_row(fm, cols[i]))

\* update_mapping_list: the rows, each dropdown showing the row's auto target
NewMappingList(cols) ==
  [i \in 1..Len(cols) |-> [source_text |-> cols[i], dropdown |-> RowAutoTable[cols[i]]]]

AutoTargets(cols) == [i \in 1..Len(cols) |-> RowAutoTable[cols[i]]]

\* parse_source_file, the file read: columns, rows, a fresh mapping list
ParseOk(f, fm, logged, op) ==
  /\ source_columns' = FileColumns(f)
  /\ source_data' = FileRows(f)
  /\ mapping_list' = NewMappingList(FileColumns(f))
  /\ start_button_disabled' = FALSE
  /\ field_mappings' = CreateRows(FileColumns(f), 1, fm)
  /\ log_entries' = Append(logged, LogEntry("Geparst", FALSE,
                             [rows |-> Len(FileRows(f)), columns |-> Len(FileColumns(f))]))
  /\ last' = Last(op, <<>>, "", fm, AutoTargets(FileColumns(f)), <<>>)

\* parse_source_file, the file unreadable: the exception is logged, nothing is replaced
ParseFailed(fm, logged, op) ==
  /\ field_mappings' = fm
  /\ log_entries' = Append(logged, LogEntry("FEHLER beim Parsen", TRUE, NoParams))
  /\ last' = Last(op, <<>>, "", fm, <<>>, <<>>)
  /\ UNCHANGED <<source_columns, source_data, mapping_list, start_button_disabled>>

parse_source_file(f, fm, logged, op) ==
  \/ ParseOk(f, fm, logged, op)
  \/ ParseFailed(fm, logged, op)

on_file_picked ==
  /\ Step
  /\ ImportIdle
  /\ UNCHANGED csv_options
  /\ \E f \in FileNames :
    /\ source_file' = f
    /\ parse_source_file(f, field_mappings,
         <<LogEntry("Datei geladen", FALSE, [name |-> f])>>, "on_file_picked")
    /\ UNCHANGED <<import_type, template_file, gemini, ai_thread>>

reload_file ==
  /\ Step
  /\ ImportIdle
  /\ UNCHANGED csv_options
  /\ source_file # ""
  /\ parse_source_file(source_file, field_mappings, <<>>, "reload_file")
  /\ UNCHANGED <<source_file, import_type, template_file, gemini, ai_thread>>

on_import_type_changed ==
  /\ Step
  /\ ImportIdle
  /\ UNCHANGED csv_options
  /\ \E t \in ImportTypes \ {import_type} :
    /\ import_type' = t
    /\ IF source_columns # <<>>
       THEN /\ field_mappings' = CreateRows(source_columns, 1, <<>>)
            /\ mapping_list' = NewMappingList(source_columns)
            /\ log_entries' = <<LogEntry("Import-Typ geaendert", FALSE, [import_type |-> t])>>
            /\ last' = Last("on_import_type_changed", <<>>, "", field_mappings,
                            AutoTargets(source_columns), <<>>)
       ELSE /\ log_entries' = <<>>
            /\ last' = Last("on_import_type_changed", <<>>, "", field_mappings, <<>>, <<>>)
            /\ UNCHANGED <<field_mappings, mapping_list>>
    /\ UNCHANGED <<start_button_disabled, source_file, source_columns, source_data,
                   template_file, gemini, ai_thread>>

\* the columns on_mapping_changed evicts: the others that hold the target
Evicted(fm, source_col, target_field) ==
  SelectSeq(fm, LAMBDA m : m.source_column # source_col /\ m.target_field = target_field)

\* a loop that stops at the first holder it finds
AfterEvictionFirstOnly(fm, source_col, target_field) ==
  SelectSeq(fm, LAMBDA m :
    \/ ~(m.source_column # source_col /\ m.target_field = target_field)
    \/ m.source_column # Evicted(fm, source_col, target_field)[1].source_column)

\* a loop that blanks the target of a holder and keeps its entry
AfterEvictionBlanked(fm, source_col, target_field) ==
  [i \in 1..Len(fm) |->
     IF fm[i].source_column # source_col /\ fm[i].target_field = target_field
     THEN [fm[i] EXCEPT !.target_field = ""]
     ELSE fm[i]]

\* on_mapping_changed, the dict after the eviction loop
AfterEviction(fm, source_col, target_field) ==
  SelectSeq(fm, LAMBDA m : ~(m.source_column # source_col /\ m.target_field = target_field))

\* on_mapping_changed, the dict
MappingChanged(fm, source_col, target_field) ==
  IF target_field # ""
  THEN IF HasKey(AfterEviction(fm, source_col, target_field), source_col)
       THEN [i \in 1..Len(AfterEviction(fm, source_col, target_field)) |->
               IF AfterEviction(fm, source_col, target_field)[i].source_column = source_col
               THEN [AfterEviction(fm, source_col, target_field)[i]
                       EXCEPT !.target_field = target_field]
               ELSE AfterEviction(fm, source_col, target_field)[i]]
       ELSE Append(AfterEviction(fm, source_col, target_field),
                   FieldMapping(source_col, target_field))
  ELSE IF HasKey(fm, source_col) THEN DictDel(fm, source_col)
  ELSE fm

\* on_mapping_changed, the dropdowns: the edited one shows the target, the
\* dropdown registered for an evicted column is reset
DropdownsChanged(ml, r, fm, target_field) ==
  [i \in 1..Len(ml) |->
     IF i = r THEN [ml[i] EXCEPT !.dropdown = target_field]
     ELSE IF /\ target_field # ""
             /\ \E k \in 1..Len(Evicted(fm, ml[r].source_text, target_field)) :
                  /\ Evicted(fm, ml[r].source_text, target_field)[k].source_column
                       = ml[i].source_text
                  /\ DropdownRow(ml, ml[i].source_text) = i
          THEN [ml[i] EXCEPT !.dropdown = ""]
          ELSE ml[i]]

\* on_mapping_changed, the log: one notice per evicted column, naming the target
EvictionNotices(fm, source_col, target_field) ==
  IF target_field = "" THEN <<>>
  ELSE [k \in 1..Len(Evicted(fm, source_col, target_field)) |->
          LogEntry("war bereits vergeben - altes Mapping entfernt", FALSE,
                   [target_field |-> target_field])]

\* the dropdown of row r is set to a target of the row's options
on_mapping_changed ==
  /\ Step
  /\ ImportIdle
  /\ UNCHANGED csv_options
  /\ \E r \in 1..Len(mapping_list) :
    \E target_field \in (TargetFields(import_type) \cup {""}) \cap ManualTargets :
      /\ target_field # mapping_list[r].dropdown
      /\ field_mappings' =
           MappingChanged(field_mappings, mapping_list[r].source_text, target_field)
      /\ mapping_list' = DropdownsChanged(mapping_list, r, field_mappings, target_field)
      /\ log_entries' =
           EvictionNotices(field_mappings, mapping_list[r].source_text, target_field)
      /\ last' = Last("on_mapping_changed", mapping_list[r].source_text, target_field,
                      field_mappings, <<>>, <<>>)
      /\ UNCHANGED <<start_button_disabled, source_file, source_columns, source_data,
                     import_type, template_file, gemini, ai_thread>>

\* auto_map_fields, the loop over the rows from row i on
RECURSIVE AutoMapLoop(_, _, _)
AutoMapLoop(ml, i, acc) ==
  IF i > Len(ml) THEN acc
  ELSE AutoMapLoop(ml, i + 1,
         IF /\ ActionAutoTable[ml[i].source_text] # ""
            /\ ActionAutoTable[ml[i].source_text] \notin acc.used_targets
         THEN [fm |-> DictSet(acc.fm, ml[i].source_text,
                        FieldMapping(ml[i].source_text, ActionAutoTable[ml[i].source_text])),
               ml |-> [acc.ml EXCEPT ![i].dropdown = ActionAutoTable[ml[i].source_text]],
               used_targets |-> acc.used_targets \cup {ActionAutoTable[ml[i].source_text]},
               mapped_count |-> acc.mapped_count + 1,
               accepted |-> Append(acc.accepted,
                              [source |-> ml[i].source_text,
                               target |-> ActionAutoTable[ml[i].source_text]])]
         ELSE acc)

LoopStart(fm, ml) ==
  [fm |-> fm, ml |-> ml, used_targets |-> {}, mapped_count |-> 0, accepted |-> <<>>]

auto_map_fields ==
  /\ Step
  /\ ImportIdle
  /\ UNCHANGED csv_options
  /\ field_mappings' = AutoMapLoop(mapping_list, 1, LoopStart(field_mappings, mapping_list)).fm
  /\ mapping_list' = AutoMapLoop(mapping_list, 1, LoopStart(field_mappings, mapping_list)).ml
  /\ log_entries' =
       <<LogEntry("Auto-Mapping", FALSE,
           [mapped_count |->
              AutoMapLoop(mapping_list, 1, LoopStart(field_mappings, mapping_list)).mapped_count])>>
  /\ last' = Last("auto_map_fields", <<>>, "", field_mappings,
                  [i \in 1..Len(mapping_list) |-> ActionAutoTable[mapping_list[i].source_text]],
                  AutoMapLoop(mapping_list, 1, LoopStart(field_mappings, mapping_list)).accepted)
  /\ UNCHANGED <<start_button_disabled, source_file, source_columns, source_data,
                 import_type, template_file, gemini, ai_thread>>

clear_mappings ==
  /\ Step
  /\ ImportIdle
  /\ UNCHANGED csv_options
  /\ field_mappings' = <<>>
  /\ mapping_list' = [i \in 1..Len(mapping_list) |-> [mapping_list[i] EXCEPT !.dropdown = ""]]
  /\ log_entries' = <<LogEntry("Alle Mappings geloescht", FALSE, NoParams)>>
  /\ last' = Last("clear_mappings", <<>>, "", field_mappings, <<>>, <<>>)
  /\ UNCHANGED <<start_button_disabled, source_file, source_columns, source_data,
                 import_type, template_file, gemini, ai_thread>>

(* ---------------------------- AI suggestion --------------------------- *)

\* the catalog _run_ai_mapping hands to the advisor
AiTargetFields(type) ==
  IF type \in {"artikel", "preise"} THEN ERPNEXT_ITEM_FIELDS ELSE ERPNEXT_ITEM_GROUP_FIELDS

\* GeminiAPI.smart_map_fields: {} for a failed request or an unparsable reply,
\* else the pairs whose source is a given column and whose target is a given key
smart_map_fields(columns, target_fields, reply) ==
  IF reply.kind # "json" THEN <<>>
  ELSE SelectSeq(reply.pairs,
         LAMBDA p : /\ \E i \in 1..Len(columns) : columns[i] = p.source
                    /\ p.target \in target_fields)

\* "source_text in ai_mappings"
Suggested(ai_mappings, source_text) ==
  \E k \in 1..Len(ai_mappings) : ai_mappings[k].source = source_text

\* "ai_mappings[source_text]"
Suggestion(ai_mappings, source_text) ==
  ai_mappings[CHOOSE k \in 1..Len(ai_mappings) : ai_mappings[k].source = source_text].target

\* a pass that forgets the targets it has used
AiTakesAnyTarget(ai_mappings, source_text, used_targets) ==
  Suggested(ai_mappings, source_text)

\* _run_ai_mapping, whether a row takes its suggestion: the column is
\* suggested and the target has not been used in this pass
AiTakes(ai_mappings, source_text, used_targets) ==
  /\ Suggested(ai_mappings, source_text)
  /\ Suggestion(ai_mappings, source_text) \notin used_targets

\* _run_ai_mapping, the loop over the rows from row i on
RECURSIVE AiLoop(_, _, _, _)
AiLoop(ml, i, ai_mappings, acc) ==
  IF i > Len(ml) THEN acc
  ELSE AiLoop(ml, i + 1, ai_mappings,
         IF AiTakes(ai_mappings, ml[i].source_text, acc.used_targets)
         THEN [fm |-> DictSet(acc.fm, ml[i].source_text,
                        FieldMapping(ml[i].source_text,
                                     Suggestion(ai_mappings, ml[i].source_text))),
               ml |-> [acc.ml EXCEPT ![i].dropdown = Suggestion(ai_mappings, ml[i].source_text)],
               used_targets |-> acc.used_targets
                                  \cup {Suggestion(ai_mappings, ml[i].source_text)},
               mapped_count |-> acc.mapped_count + 1,
               accepted |-> Append(acc.accepted,
                              [source |-> ml[i].source_text,
                               target |-> Suggestion(ai_mappings, ml[i].source_text)])]
         ELSE acc)

\* ai_smart_map_fields: the button starts the thread, which reads the import
\* type and the columns and sends the request
ai_smart_map_fields ==
  /\ Step
  /\ ImportIdle
  /\ UNCHANGED csv_options
  /\ ~ai_thread.running
  /\ IF source_columns = <<>>
     THEN /\ log_entries' = <<LogEntry("Keine Quelldatei geladen!", TRUE, NoParams)>>
          /\ UNCHANGED ai_thread
     ELSE IF ~gemini
     THEN /\ log_entries' = <<LogEntry("Gemini AI nicht konfiguriert!", TRUE, NoParams)>>
          /\ UNCHANGED ai_thread
     ELSE /\ log_entries' = <<LogEntry("Starte Gemini AI Smart-Mapping...", FALSE, NoParams)>>
          /\ ai_thread' = [running |-> TRUE, source_columns |-> source_columns,
                           import_type |-> import_type]
  /\ last' = Last("ai_smart_map_fields", <<>>, "", field_mappings, <<>>, <<>>)
  /\ UNCHANGED <<start_button_disabled, source_file, source_columns, source_data,
                 import_type, field_mappings, mapping_list, template_file, gemini>>

\* _run_ai_mapping from the advisor's reply on
run_ai_mapping ==
  /\ Step
  /\ ImportIdle
  /\ UNCHANGED csv_options
  /\ \E reply \in AiReplies :
    LET ai_mappings == smart_map_fields(ai_thread.source_columns,
                                        AiTargetFields(ai_thread.import_type), reply)
        done == AiLoop(mapping_list, 1, ai_mappings, LoopStart(field_mappings, mapping_list))
    IN /\ ai_thread.running
       /\ IF ai_mappings = <<>>
          THEN /\ log_entries' = <<LogEntry("AI konnte keine Mappings ermitteln", TRUE, NoParams)>>
               /\ last' = Last("run_ai_mapping", <<>>, reply.kind, field_mappings, <<>>, <<>>)
               /\ UNCHANGED <<field_mappings, mapping_list>>
          ELSE /\ field_mappings' = done.fm
               /\ mapping_list' = done.ml
               /\ log_entries' = <<LogEntry("AI Smart-Mapping", FALSE,
                                     [mapped_count |-> done.mapped_count])>>
               /\ last' = [Last("run_ai_mapping", <<>>, reply.kind, field_mappings, <<>>,
                                done.accepted) EXCEPT !.ai = ai_mappings]
       /\ ai_thread' = NoThread
       /\ UNCHANGED <<start_button_disabled, source_file, source_columns, source_data,
                      import_type, template_file, gemini>>

(* ------------------------------ templates ----------------------------- *)

\* a dict of a FieldMapping that holds its column and its target only
AsDictBare(m) ==
  [source_column |-> m.source_column, target_field |-> m.target_field,
   transform |-> "none", default_value |-> <<>>]

\* dataclasses.asdict(FieldMapping)
asdict(m) ==
  [source_column |-> m.source_column, target_field |-> m.target_field,
   transform |-> m.transform, default_value |-> m.default_value]

\* ImportTemplate.to_dict
to_dict(t) ==
  [name |-> t.name, import_type |-> t.import_type, file_format |-> t.file_format,
   mappings |-> [i \in 1..Len(t.mappings) |-> asdict(t.mappings[i])],
   csv_delimiter |-> t.csv_delimiter, csv_encoding |-> t.csv_encoding,
   skip_first_row |-> t.skip_first_row, created_at |-> t.created_at]

\* ImportTemplate.from_dict, of a dict that holds every key
from_dict(data) ==
  [name |-> data.name, import_type |-> data.import_type, file_format |-> data.file_format,
   mappings |-> [i \in 1..Len(data.mappings) |->
                   [source_column |-> data.mappings[i].source_column,
                    target_field |-> data.mappings[i].target_field,
                    transform |-> data.mappings[i].transform,
                    default_value |-> data.mappings[i].default_value]],
   csv_delimiter |-> data.csv_delimiter, csv_encoding |-> data.csv_encoding,
   skip_first_row |-> data.skip_first_row, created_at |-> data.created_at]

\* the ImportTemplate do_save builds, with the dialog's default name
\* (lines 3225-3234)
NewTemplate ==
  [name |-> "Meine Vorlage", import_type |-> import_type, file_format |-> "csv",
   mappings |-> field_mappings, csv_delimiter |-> csv_options.csv_delimiter,
   csv_encoding |-> csv_options.csv_encoding,
   skip_first_row |-> csv_options.skip_header, created_at |-> "now"]

\* save_template.do_save with the dialog's default name: the file is overwritten
save_template ==
  /\ Step
  /\ ImportIdle
  /\ UNCHANGED csv_options
  /\ template_file' = to_dict(NewTemplate)
  /\ log_entries' = <<LogEntry("Vorlage gespeichert", FALSE, NoParams)>>
  /\ last' = Last("save_template", <<>>, "", field_mappings, <<>>, <<>>)
  /\ UNCHANGED <<start_button_disabled, source_file, source_columns, source_data,
                 import_type, field_mappings, mapping_list, gemini, ai_thread>>

\* on_template_loaded: field_mappings filled from the template's mappings
RECURSIVE TemplateMappings(_, _, _)
TemplateMappings(mappings, i, fm) ==
  IF i > Len(mappings) THEN fm
  ELSE TemplateMappings(mappings, i + 1, DictSet(fm, mappings[i].source_column, mappings[i]))

on_template_loaded ==
  /\ Step
  /\ ImportIdle
  /\ csv_options' =
       [csv_delimiter |-> from_dict(template_file).csv_delimiter,
        csv_encoding |-> from_dict(template_file).csv_encoding,
        skip_header |-> from_dict(template_file).skip_first_row]
  /\ template_file # NoTemplate
  /\ import_type' = from_dict(template_file).import_type
  /\ IF source_file # ""
     THEN parse_source_file(source_file,
            TemplateMappings(from_dict(template_file).mappings, 1, <<>>),
            <<LogEntry("Vorlage geladen", FALSE, NoParams)>>, "on_template_loaded")
     ELSE /\ field_mappings' = TemplateMappings(from_dict(template_file).mappings, 1, <<>>)
          /\ log_entries' = <<LogEntry("Vorlage geladen", FALSE, NoParams)>>
          /\ last' = Last("on_template_loaded", <<>>, "", field_mappings, <<>>, <<>>)
          /\ UNCHANGED <<source_columns, source_data, mapping_list, start_button_disabled>>
  /\ UNCHANGED <<source_file, template_file, gemini, ai_thread>>


(* ---------------------------- row values ------------------------------ *)

\* the values of a record: a str, a float (n is the value times Scale),
\* an int or a bool (n is 1 for True)
Scale == 100

StrVal(s) == [t |-> "str", s |-> s, n |-> 0]
FloatVal(n) == [t |-> "float", s |-> <<>>, n |-> n]
IntVal(n) == [t |-> "int", s |-> <<>>, n |-> n]
BoolVal(b) == [t |-> "bool", s |-> <<>>, n |-> IF b THEN 1 ELSE 0]

\* Python's truth value
Truthy(v) == IF v.t = "str" THEN v.s # <<>> ELSE v.n # 0

\* str.upper() on one character
UpperChar(c) ==
  IF \E i \in 1..Len(LowerChars) : LowerChars[i] = c
  THEN UpperChars[CHOOSE i \in 1..Len(LowerChars) : LowerChars[i] = c]
  ELSE c

\* str.upper()
Upper(s) == [i \in 1..Len(s) |-> UpperChar(s[i])]

\* str.strip()
RECURSIVE LStrip(_)
LStrip(s) == IF s # <<>> /\ Head(s) = " " THEN LStrip(Tail(s)) ELSE s

RECURSIVE RStrip(_)
RStrip(s) ==
  IF s # <<>> /\ s[Len(s)] = " " THEN RStrip(SubSeq(s, 1, Len(s) - 1)) ELSE s

Strip(s) == RStrip(LStrip(s))

\* str.replace(old, "") for a one-character old
RemoveChar(s, old) == SelectSeq(s, LAMBDA c : c # old)

\* the value of a digit
DigitValue(c) ==
  CASE c = "0" -> 0 [] c = "1" -> 1 [] c = "2" -> 2 [] c = "3" -> 3 [] c = "4" -> 4
    [] c = "5" -> 5 [] c = "6" -> 6 [] c = "7" -> 7 [] c = "8" -> 8 [] c = "9" -> 9

DigitChar(d) == <<"0","1","2","3","4","5","6","7","8","9">>[d + 1]

RECURSIVE DigitsValue(_)
DigitsValue(s) ==
  IF s = <<>> THEN 0
  ELSE 10 * DigitsValue(SubSeq(s, 1, Len(s) - 1)) + DigitValue(s[Len(s)])

AllDigits(s) == \A i \in 1..Len(s) : s[i] \in Digits

\* float(s) for the decimal notations digits, digits.digits, digits. and
\* .digits with at most two decimals and an optional minus sign; every other
\* text of the inputs raises ValueError
ParseFloat(s) ==
  LET neg == s # <<>> /\ Head(s) = "-"
      u == IF neg THEN Tail(s) ELSE s
      dots == {i \in 1..Len(u) : u[i] = "."}
      whole == IF dots = {} THEN u ELSE SubSeq(u, 1, (CHOOSE i \in dots : TRUE) - 1)
      frac == IF dots = {} THEN <<>>
              ELSE SubSeq(u, (CHOOSE i \in dots : TRUE) + 1, Len(u))
      ok == /\ Cardinality(dots) <= 1
            /\ AllDigits(whole) /\ AllDigits(frac)
            /\ Len(whole) + Len(frac) > 0
            /\ Len(frac) <= 2
      cents == IF Len(frac) = 0 THEN 0
               ELSE IF Len(frac) = 1 THEN 10 * DigitValue(frac[1])
               ELSE DigitsValue(frac)
      abs == Scale * DigitsValue(whole) + cents
  IN IF ok THEN [ok |-> TRUE, n |-> IF neg THEN 0 - abs ELSE abs]
     ELSE [ok |-> FALSE, n |-> 0]

\* str(n) for a natural number
RECURSIVE NatStr(_)
NatStr(n) ==
  IF n < 10 THEN <<DigitChar(n)>> ELSE Append(NatStr(n \div 10), DigitChar(n % 10))

\* str(x) for a float of at most two decimals
FloatStr(n) ==
  LET abs == IF n < 0 THEN 0 - n ELSE n
      frac == abs % Scale
      text == NatStr(abs \div Scale) \o <<".">> \o
              (IF frac % 10 = 0 THEN <<DigitChar(frac \div 10)>>
               ELSE <<DigitChar(frac \div 10), DigitChar(frac % 10)>>)
  IN IF n < 0 THEN <<"-">> \o text ELSE text

\* str(value)
PyStr(v) ==
  CASE v.t = "str" -> v.s
    [] v.t = "float" -> FloatStr(v.n)
    [] v.t = "int" -> IF v.n < 0 THEN <<"-">> \o NatStr(0 - v.n) ELSE NatStr(v.n)
    [] v.t = "bool" -> IF v.n = 1 THEN <<"T","r","u","e">> ELSE <<"F","a","l","s","e">>

\* float(str(value).replace(",", ".").replace(" ", ""))
ToFloat(v) == ParseFloat(RemoveChar(ReplaceChar(PyStr(v), ",", "."), " "))

\* re.sub(r'<[^>]+>', '', s): a tag is "<", one or more characters other
\* than ">", and the next ">"
RECURSIVE HtmlStrip(_)
HtmlStrip(s) ==
  IF s = <<>> THEN <<>>
  ELSE LET closes == {j \in 3..Len(s) : s[j] = ">"}
           close == CHOOSE j \in closes : \A k \in closes : j <= k
       IN IF Head(s) = "<" /\ Len(s) >= 3 /\ s[2] # ">" /\ closes # {}
          THEN HtmlStrip(SubSeq(s, close + 1, Len(s)))
          ELSE <<Head(s)>> \o HtmlStrip(Tail(s))

\* the texts the bool transform takes for true
TrueWords ==
  {<<"1">>, <<"t","r","u","e">>, <<"j","a">>, <<"y","e","s">>, <<"y">>}

\* the transformation of one mapping (lines 3319-3333)
Transform(transform, value) ==
  CASE transform = "trim" -> StrVal(Strip(PyStr(value)))
    [] transform = "uppercase" -> StrVal(Upper(PyStr(value)))
    [] transform = "lowercase" -> StrVal(Lower(PyStr(value)))
    [] transform = "number" ->
         FloatVal(ToFloat(value).n)
    [] transform = "bool" -> BoolVal(Lower(PyStr(value)) \in TrueWords)
    [] transform = "html_strip" -> StrVal(HtmlStrip(PyStr(value)))
    [] OTHER -> value

\* str.split(sep), for a separator that is not empty
RECURSIVE Split(_, _)
Split(s, sep) ==
  LET hits == {i \in 1..(Len(s) - Len(sep) + 1) : SubSeq(s, i, i + Len(sep) - 1) = sep}
      hit == CHOOSE i \in hits : \A j \in hits : i <= j
  IN IF hits = {} THEN <<s>>
     ELSE <<SubSeq(s, 1, hit - 1)>> \o Split(SubSeq(s, hit + Len(sep), Len(s)), sep)

\* the separators of parse_category_path, in its order
Separators ==
  << <<" ",">"," ">>, <<" ","-",">"," ">>, <<" ",">",">"," ">>, <<" ","/"," ">>,
     <<"/">>, <<">">>, <<"|">> >>

\* [p.strip() for p in parts if p.strip()]
StripParts(parts) ==
  SelectSeq([i \in 1..Len(parts) |-> Strip(parts[i])], LAMBDA p : p # <<>>)

\* a parse that takes the last separator of the list that occurs in the path
ParseLastSeparator(path) ==
  LET found == {k \in 1..Len(Separators) : IsSubstring(Separators[k], path)}
      last_one == CHOOSE k \in found : \A j \in found : k >= j
  IN IF found # {} THEN StripParts(Split(path, Separators[last_one]))
     ELSE IF Strip(path) # <<>> THEN <<Strip(path)>> ELSE <<>>

\* ERPNextAPI.parse_category_path (lines 965-985)
parse_category_path(path) ==
  LET found == {k \in 1..Len(Separators) : IsSubstring(Separators[k], path)}
      first == CHOOSE k \in found : \A j \in found : k <= j
  IN IF found # {} THEN StripParts(Split(path, Separators[first]))
     ELSE IF Strip(path) # <<>> THEN <<Strip(path)>> ELSE <<>>

(* --------------------------- record of a row -------------------------- *)

\* a record (item_data) is a function from target-field keys to values
EmptyRecord == [k \in {} |-> StrVal(<<>>)]

\* "d[k] = v"
Put(d, k, v) == [x \in DOMAIN d \cup {k} |-> IF x = k THEN v ELSE d[x]]

\* "d.pop(k)" for its effect on d
Pop(d, k) == [x \in DOMAIN d \ {k} |-> d[x]]

\* "row.get(source_col, '') or mapping.default_value" (line 3316)
RowValue(row, mapping) ==
  IF mapping.source_column \in DOMAIN row /\ row[mapping.source_column] # <<>>
  THEN StrVal(row[mapping.source_column])
  ELSE StrVal(mapping.default_value)

\* the loop over field_mappings.items() (lines 3314-3336)
RECURSIVE TransformRow(_, _, _, _)
TransformRow(fm, k, row, item_data) ==
  IF k > Len(fm) THEN item_data
  ELSE LET value == Transform(fm[k].transform, RowValue(row, fm[k]))
       IN TransformRow(fm, k + 1, row,
                       IF Truthy(value) THEN Put(item_data, fm[k].target_field, value)
                       ELSE item_data)

\* ERPNextConfig.default_tax_rate as it is set at first, in percent
DefaultTaxRate == 19

\* 1.19, times Scale
GrossFactor == 119

\* round(a / b) for a >= 0 and b > 0 where no tie occurs
RoundDiv(a, b) == (2 * a + b) \div (2 * b)

\* round(brutto_val / 1.19, 2)
Netto(n) ==
  IF n >= 0 THEN RoundDiv(n * Scale, GrossFactor)
  ELSE 0 - RoundDiv((0 - n) * Scale, GrossFactor)

\* standard_rate_brutto -> standard_rate (lines 3341-3349)
BruttoStep(d) ==
  IF "standard_rate_brutto" \in DOMAIN d
  THEN LET brutto_val == ToFloat(d["standard_rate_brutto"])
           rest == Pop(d, "standard_rate_brutto")
       IN IF brutto_val.ok THEN Put(rest, "standard_rate", FloatVal(Netto(brutto_val.n)))
          ELSE rest
  ELSE d

\* the least length of a barcode that is kept
MinBarcodeLen == 8

\* barcode -> gtin (lines 3352-3358)
BarcodeStep(d) ==
  IF "barcode" \in DOMAIN d
  THEN LET barcode_str == Strip(PyStr(d["barcode"]))
           rest == Pop(d, "barcode")
       IN IF /\ Truthy(d["barcode"])
             /\ barcode_str # <<>>
             /\ Len(barcode_str) >= MinBarcodeLen
             /\ barcode_str # <<"0">>
          THEN Put(rest, "gtin", StrVal(barcode_str))
          ELSE rest
  ELSE d

\* the texts that stand for an active article
ActiveWords == TrueWords \cup {<<"a","k","t","i","v">>}

\* the inversion of the active flag (lines 3361-3368)
DisabledStep(d) ==
  IF "disabled" \in DOMAIN d
  THEN IF d["disabled"].t = "str"
       THEN Put(d, "disabled",
                IntVal(IF Lower(d["disabled"].s) \in ActiveWords THEN 0 ELSE 1))
       ELSE IF d["disabled"].t = "bool"
       THEN Put(d, "disabled", IntVal(IF d["disabled"].n = 1 THEN 0 ELSE 1))
       ELSE d
  ELSE d

\* an alias step in which the HTML description replaces the plain one
DescriptionStepHtmlWins(d) ==
  IF "description_html" \in DOMAIN d
  THEN Put(Pop(d, "description_html"), "description", d["description_html"])
  ELSE d

\* description_html -> description (lines 3371-3374)
DescriptionStep(d) ==
  IF "description_html" \in DOMAIN d /\ "description" \notin DOMAIN d
  THEN Put(Pop(d, "description_html"), "description", d["description_html"])
  ELSE IF "description_html" \in DOMAIN d THEN Pop(d, "description_html")
  ELSE d

\* the record of a row before the category step (lines 3314-3374)
BuildRecord(fm, row) ==
  DescriptionStep(DisabledStep(BarcodeStep(BruttoStep(
    TransformRow(fm, 1, row, EmptyRecord)))))

\* f"Row {i+1}"
RowLabel(i) == <<"R","o","w"," ">> \o NatStr(i + 1)

\* item_data.get("item_code") or item_data.get("item_group_name", f"Row {i+1}")
Identifier(d, i) ==
  IF "item_code" \in DOMAIN d /\ Truthy(d["item_code"]) THEN d["item_code"]
  ELSE IF "item_group_name" \in DOMAIN d THEN d["item_group_name"]
  ELSE StrVal(RowLabel(i))

\* the keys category_level_1 .. category_level_4
LevelKeys ==
  <<"category_level_1", "category_level_2", "category_level_3", "category_level_4">>

\* the values of the level keys of the record, in the order of the keys
\* (lines 3383-3386)
GatherLevels(d) ==
  LET present == SelectSeq(LevelKeys, LAMBDA k : k \in DOMAIN d)
  IN [i \in 1..Len(present) |-> d[present[i]]]

\* the record without its level keys and its category_path
WithoutCategoryKeys(d) ==
  [x \in DOMAIN d \ ({LevelKeys[i] : i \in 1..Len(LevelKeys)} \cup {"category_path"})
     |-> d[x]]

\* whether the category_path of the record is parsed (line 3391)
PathParsed(d, has_api) ==
  "category_path" \in DOMAIN d /\ Truthy(d["category_path"]) /\ has_api

\* `sep in path` raises TypeError for a path that is not a str
PathRaises(d, has_api) == PathParsed(d, has_api) /\ d["category_path"].t # "str"

\* category_levels after lines 3380-3394, as values
CategoryLevels(d, has_api) ==
  LET parsed_levels ==
        IF PathParsed(d, has_api) /\ d["category_path"].t = "str"
        THEN parse_category_path(d["category_path"].s) ELSE <<>>
  IN IF parsed_levels # <<>>
     THEN [i \in 1..Len(parsed_levels) |-> StrVal(parsed_levels[i])]
     ELSE GatherLevels(d)

\* a level on which str.strip or str.join raises
SomeLevelNotStr(levels) == \E i \in 1..Len(levels) : levels[i].t # "str"

\* [l.strip() for l in levels if l and l.strip()] (line 928)
CleanLevels(levels) ==
  SelectSeq([i \in 1..Len(levels) |-> Strip(levels[i].s)], LAMBDA l : l # <<>>)

(* ------------------------------ ERPNextAPI ---------------------------- *)

\* ERPNextConfig.default_item_group
default_item_group ==
  <<"A","l","l","e"," ","A","r","t","i","k","e","l","g","r","u","p","p","e","n">>

\* The state a worker threads through the calls of one row: the caches of
\* the ERPNextAPI object, the remote system, the calls made so far and the
\* lines logged.  Every operation of the API yields the set of its possible
\* results [c |-> state after, r |-> returned truth value]: a request to
\* the remote system can fail.

\* one call of an API method: sent says that a request went to the remote
\* system, ok is the truth value the method returned
Call(c, op, name, parent, sent, ok) ==
  [c EXCEPT !.calls = Append(@, [w |-> c.w, row |-> c.row, op |-> op, name |-> name,
                                 parent |-> parent, sent |-> sent, ok |-> ok])]

\* self.log(...) from the worker
Logged(c, msg, error) ==
  [c EXCEPT !.logs = Append(@, LogEntry(msg, error, [row |-> c.row]))]

\* ERPNextAPI.get_item (lines 810-820)
get_item(c, item_code) ==
  IF item_code \in c.item_cache
  THEN {[c |-> Call(c, "get_item", item_code, <<>>, FALSE, TRUE), r |-> TRUE]}
  ELSE {[c |-> Call(c, "get_item", item_code, <<>>, TRUE, FALSE), r |-> FALSE]}
       \cup IF item_code \in c.remote_items
            THEN {[c |-> [Call(c, "get_item", item_code, <<>>, TRUE, TRUE)
                            EXCEPT !.item_cache = @ \cup {item_code}],
                   r |-> TRUE]}
            ELSE {}

\* ERPNextAPI.create_item (lines 822-853)
create_item(c, data) ==
  IF "item_code" \notin DOMAIN data
  THEN {[c |-> Call(c, "create_item", <<>>, <<>>, FALSE, FALSE), r |-> FALSE]}
  ELSE LET item_code == PyStr(data["item_code"])
       IN {[c |-> Call(c, "create_item", item_code, <<>>, TRUE, FALSE), r |-> FALSE],
           [c |-> [Call(c, "create_item", item_code, <<>>, TRUE, TRUE)
                     EXCEPT !.item_cache = @ \cup {item_code},
                            !.remote_items = @ \cup {item_code}],
            r |-> TRUE]}

\* ERPNextAPI.update_item (lines 855-866)
update_item(c, item_code) ==
  {[c |-> Call(c, "update_item", item_code, <<>>, TRUE, ok), r |-> ok] : ok \in BOOLEAN}

\* ERPNextAPI.create_item_price (lines 1116-1130)
create_item_price(c, item_code) ==
  {[c |-> Call(c, "create_item_price", item_code, <<>>, TRUE, ok), r |-> ok] :
     ok \in BOOLEAN}

\* ERPNextAPI.get_item_group (lines 879-889)
get_item_group(c, name) ==
  IF name \in c.item_group_cache
  THEN {[c |-> Call(c, "get_item_group", name, <<>>, FALSE, TRUE), r |-> TRUE]}
  ELSE {[c |-> Call(c, "get_item_group", name, <<>>, TRUE, FALSE), r |-> FALSE]}
       \cup IF name \in c.remote_groups
            THEN {[c |-> [Call(c, "get_item_group", name, <<>>, TRUE, TRUE)
                            EXCEPT !.item_group_cache = @ \cup {name}],
                   r |-> TRUE]}
            ELSE {}

\* a create_item_group that does not note the created group in the cache
CreateItemGroupUncached(c, name, parent) ==
  UNION {
    IF g.r
    THEN {[c |-> Call(g.c, "create_item_group", name, parent, FALSE, TRUE), r |-> TRUE]}
    ELSE {[c |-> Call(g.c, "create_item_group", name, parent, TRUE, FALSE), r |-> FALSE],
          [c |-> [Call(g.c, "create_item_group", name, parent, TRUE, TRUE)
                    EXCEPT !.remote_groups = @ \cup {name}],
           r |-> TRUE]}
    : g \in get_item_group(c, name)}

\* a create_item_group that files every group under the default group
CreateItemGroupUnderRoot(c, name, parent) ==
  UNION {
    IF g.r
    THEN {[c |-> Call(g.c, "create_item_group", name, default_item_group, FALSE, TRUE),
           r |-> TRUE]}
    ELSE {[c |-> Call(g.c, "create_item_group", name, default_item_group, TRUE, FALSE),
           r |-> FALSE],
          [c |-> [Call(g.c, "create_item_group", name, default_item_group, TRUE, TRUE)
                    EXCEPT !.item_group_cache = @ \cup {name},
                           !.remote_groups = @ \cup {name}],
           r |-> TRUE]}
    : g \in get_item_group(c, name)}

\* ERPNextAPI.create_item_group (lines 891-910)
create_item_group(c, name, parent) ==
  UNION {
    IF g.r
    THEN {[c |-> Call(g.c, "create_item_group", name, parent, FALSE, TRUE), r |-> TRUE]}
    ELSE {[c |-> Call(g.c, "create_item_group", name, parent, TRUE, FALSE), r |-> FALSE],
          [c |-> [Call(g.c, "create_item_group", name, parent, TRUE, TRUE)
                    EXCEPT !.item_group_cache = @ \cup {name},
                           !.remote_groups = @ \cup {name}],
           r |-> TRUE]}
    : g \in get_item_group(c, name)}

\* a loop that goes on to the next level after a level could not be created
RECURSIVE EnsureLoopGoesOn(_, _, _, _, _)
EnsureLoopGoesOn(c, levels, k, parent, last_category) ==
  IF k > Len(levels) THEN {[c |-> c, r |-> last_category, ok |-> TRUE]}
  ELSE UNION {
         IF g.r
         THEN EnsureLoopGoesOn(Logged(g.c, "Kategorie existiert", FALSE),
                               levels, k + 1, levels[k], levels[k])
         ELSE UNION {
                IF p.r
                THEN EnsureLoopGoesOn(Logged(p.c, "Kategorie erstellt", FALSE),
                                      levels, k + 1, levels[k], levels[k])
                ELSE {[c |-> e.c, r |-> e.r, ok |-> FALSE] :
                        e \in EnsureLoopGoesOn(
                                Logged(p.c, "FEHLER: Kategorie konnte nicht erstellt werden",
                                       FALSE),
                                levels, k + 1, parent, last_category)}
                : p \in create_item_group(g.c, levels[k], parent)}
         : g \in get_item_group(c, levels[k])}

\* the loop of ERPNextAPI.ensure_category_hierarchy (lines 935-963); r is the
\* category returned, ok says that no level failed
RECURSIVE EnsureLoop(_, _, _, _, _)
EnsureLoop(c, levels, k, parent, last_category) ==
  IF k > Len(levels) THEN {[c |-> c, r |-> last_category, ok |-> TRUE]}
  ELSE UNION {
         IF g.r
         THEN EnsureLoop(Logged(g.c, "Kategorie existiert", FALSE),
                         levels, k + 1, levels[k], levels[k])
         ELSE UNION {
                IF p.r
                THEN EnsureLoop(Logged(p.c, "Kategorie erstellt", FALSE),
                                levels, k + 1, levels[k], levels[k])
                ELSE {[c |-> Logged(p.c, "FEHLER: Kategorie konnte nicht erstellt werden",
                                    FALSE),
                       r |-> last_category, ok |-> FALSE]}
                : p \in create_item_group(g.c, levels[k], parent)}
         : g \in get_item_group(c, levels[k])}

\* one call of ensure_category_hierarchy, noted after its return: the levels
\* it walked, the category it returned, whether no level failed, and the
\* group cache of the ERPNextAPI object before and after the call
EnsureCall(c, levels, returned, ok, before) ==
  [c EXCEPT !.calls = Append(@, [w |-> c.w, row |-> c.row,
                                 op |-> "ensure_category_hierarchy", name |-> returned,
                                 parent |-> <<>>, sent |-> FALSE, ok |-> ok,
                                 levels |-> levels, before |-> before,
                                 after |-> c.item_group_cache])]

\* ERPNextAPI.ensure_category_hierarchy (lines 912-963) for levels that are
\* all str
ensure_category_hierarchy(c, levels) ==
  IF CleanLevels(levels) = <<>>
  THEN {[c |-> EnsureCall(c, <<>>, default_item_group, TRUE, c.item_group_cache),
         r |-> default_item_group]}
  ELSE {[c |-> EnsureCall(e.c, CleanLevels(levels), e.r, e.ok, c.item_group_cache),
         r |-> e.r] :
          e \in EnsureLoop(c, CleanLevels(levels), 1, default_item_group,
                           default_item_group)}

\* ERPNextAPI.create_attribute (lines 1269-1295): the request is accepted,
\* rejected as a duplicate (which counts as done) or rejected
create_attribute(c, attribute_name) ==
  {[c |-> Call(c, "create_attribute", attribute_name, <<>>, TRUE, ok), r |-> ok] :
     ok \in BOOLEAN}

\* ERPNextAPI.create_variant (lines 1323-1353): the template lookup fails or
\* finds no variant template (nothing is sent), or the variant is posted
create_variant(c, template, variant_code, can_post) ==
  {[c |-> Call(c, "create_variant", variant_code, template, FALSE, FALSE), r |-> FALSE]}
  \cup IF can_post
       THEN {[c |-> Call(c, "create_variant", variant_code, template, TRUE, ok),
              r |-> ok] : ok \in BOOLEAN}
       ELSE {}

(* ----------------------------- _run_import ---------------------------- *)

\* the state a worker starts a row with
RowStart(w, i) ==
  [w |-> w, row |-> i, item_cache |-> item_cache, item_group_cache |-> item_group_cache,
   remote_items |-> remote_items, remote_groups |-> remote_groups, calls |-> calls,
   logs |-> <<>>]

\* what became of a row: the tally it counts in, the branch it took, whether
\* the progress lines 3534-3538 ran, and its record
Result(c, tally, path, reported, item_data) ==
  [c |-> c, tally |-> tally, path |-> path, progress |-> reported,
   item_data |-> item_data]

\* the except clause (lines 3540-3542)
Raised(c, item_data) ==
  Result(Logged(c, "Fehler Zeile", TRUE), "errors", "raised", FALSE, item_data)

\* a reconciliation that updates an existing item in create mode too
ReconcileItemNoSkip(c, d, mode) ==
  LET item_code == IF "item_code" \in DOMAIN d THEN PyStr(d["item_code"]) ELSE <<>>
  IN UNION {
       IF ~g.r /\ mode = "update" THEN {Result(g.c, "skipped", "skip", TRUE, d)}
       ELSE IF g.r
       THEN {IF u.r THEN Result(u.c, "success", "update", TRUE, d)
             ELSE Result(Logged(u.c, "Fehler", TRUE), "errors", "update", TRUE, d) :
               u \in update_item(g.c, item_code)}
       ELSE UNION {
              IF k.r
              THEN IF "standard_rate" \in DOMAIN d
                   THEN {Result(p.c, "success", "create", TRUE, d) :
                           p \in create_item_price(k.c, item_code)}
                   ELSE {Result(k.c, "success", "create", TRUE, d)}
              ELSE {Result(Logged(k.c, "Fehler", TRUE), "errors", "create", TRUE, d)}
              : k \in create_item(g.c, d)}
       : g \in get_item(c, item_code)}

\* a reconciliation that creates the price whether or not the create succeeded
ReconcileItemPriceAlways(c, d, mode) ==
  LET item_code == IF "item_code" \in DOMAIN d THEN PyStr(d["item_code"]) ELSE <<>>
  IN UNION {
       IF g.r /\ mode = "create" THEN {Result(g.c, "skipped", "skip", TRUE, d)}
       ELSE IF ~g.r /\ mode = "update" THEN {Result(g.c, "skipped", "skip", TRUE, d)}
       ELSE IF g.r
       THEN {IF u.r THEN Result(u.c, "success", "update", TRUE, d)
             ELSE Result(Logged(u.c, "Fehler", TRUE), "errors", "update", TRUE, d) :
               u \in update_item(g.c, item_code)}
       ELSE UNION {
              IF "standard_rate" \in DOMAIN d
              THEN {Result(p.c, IF k.r THEN "success" ELSE "errors", "create", TRUE, d) :
                      p \in create_item_price(k.c, item_code)}
              ELSE {Result(k.c, IF k.r THEN "success" ELSE "errors", "create", TRUE, d)}
              : k \in create_item(g.c, d)}
       : g \in get_item(c, item_code)}

\* a category step that builds the hierarchy in a dry run as well
CategoryStepAlwaysEnsure(c, d, has_api, is_dry) ==
  LET category_levels == CategoryLevels(d, has_api)
      rest == WithoutCategoryKeys(d)
  IN IF PathRaises(d, has_api) THEN {[c |-> c, d |-> rest, raised |-> TRUE]}
     ELSE IF category_levels # <<>> /\ has_api
     THEN IF SomeLevelNotStr(category_levels) THEN {[c |-> c, d |-> rest, raised |-> TRUE]}
          ELSE {[c |-> e.c, d |-> Put(rest, "item_group", StrVal(e.r)), raised |-> FALSE] :
                  e \in ensure_category_hierarchy(c, category_levels)}
     ELSE IF category_levels # <<>> /\ is_dry
     THEN IF SomeLevelNotStr(category_levels) THEN {[c |-> c, d |-> rest, raised |-> TRUE]}
          ELSE {[c |-> Logged(c, "[DRY] Kategorie-Hierarchie", FALSE),
                 d |-> Put(rest, "item_group", category_levels[Len(category_levels)]),
                 raised |-> FALSE]}
     ELSE {[c |-> c, d |-> rest, raised |-> FALSE]}

\* the category step of a product row (lines 3379-3406): the possible states
\* after it, raised when it raises
CategoryStep(c, d, has_api, is_dry) ==
  LET category_levels == CategoryLevels(d, has_api)
      rest == WithoutCategoryKeys(d)
  IN IF PathRaises(d, has_api) THEN {[c |-> c, d |-> rest, raised |-> TRUE]}
     ELSE IF category_levels # <<>> /\ has_api /\ ~is_dry
     THEN IF SomeLevelNotStr(category_levels) THEN {[c |-> c, d |-> rest, raised |-> TRUE]}
          ELSE {[c |-> e.c, d |-> Put(rest, "item_group", StrVal(e.r)), raised |-> FALSE] :
                  e \in ensure_category_hierarchy(c, category_levels)}
     ELSE IF category_levels # <<>> /\ is_dry
     THEN IF SomeLevelNotStr(category_levels) THEN {[c |-> c, d |-> rest, raised |-> TRUE]}
          ELSE {[c |-> Logged(c, "[DRY] Kategorie-Hierarchie", FALSE),
                 d |-> Put(rest, "item_group", category_levels[Len(category_levels)]),
                 raised |-> FALSE]}
     ELSE {[c |-> c, d |-> rest, raised |-> FALSE]}

\* a product or price row against the remote system (lines 3413-3439)
ReconcileItem(c, d, mode) ==
  LET item_code == IF "item_code" \in DOMAIN d THEN PyStr(d["item_code"]) ELSE <<>>
  IN UNION {
       IF g.r /\ mode = "create" THEN {Result(g.c, "skipped", "skip", TRUE, d)}
       ELSE IF ~g.r /\ mode = "update" THEN {Result(g.c, "skipped", "skip", TRUE, d)}
       ELSE IF g.r
       THEN IF "item_code" \notin DOMAIN d THEN {Raised(g.c, d)}
            ELSE {IF u.r THEN Result(u.c, "success", "update", TRUE, d)
                  ELSE Result(Logged(u.c, "Fehler", TRUE), "errors", "update", TRUE, d) :
                    u \in update_item(g.c, item_code)}
       ELSE UNION {
              IF k.r
              THEN IF "standard_rate" \in DOMAIN d
                   THEN {Result(p.c, "success", "create", TRUE, d) :
                           p \in create_item_price(k.c, item_code)}
                   ELSE {Result(k.c, "success", "create", TRUE, d)}
              ELSE {Result(Logged(k.c, "Fehler", TRUE), "errors", "create", TRUE, d)}
              : k \in create_item(g.c, d)}
       : g \in get_item(c, item_code)}

\* a category row (lines 3441-3447)
ReconcileGroup(c, d) ==
  {IF k.r THEN Result(k.c, "success", "group", TRUE, d)
   ELSE Result(Logged(k.c, "Fehler", TRUE), "errors", "group", TRUE, d) :
     k \in create_item_group(c,
             IF "item_group_name" \in DOMAIN d THEN PyStr(d["item_group_name"]) ELSE <<>>,
             IF "parent_item_group" \in DOMAIN d THEN PyStr(d["parent_item_group"])
             ELSE default_item_group)}

\* an attribute row whose name is not looked at
ReconcileAttributeUnchecked(c, d) ==
  IF "attribute_values" \in DOMAIN d /\ d["attribute_values"].t # "str"
  THEN {Raised(c, d)}
  ELSE {IF k.r THEN Result(Logged(k.c, "Attribut", FALSE), "success", "attribute", TRUE, d)
        ELSE Result(Logged(k.c, "Fehler Attribut", TRUE), "errors", "attribute", TRUE, d) :
          k \in create_attribute(c, IF "attribute_name" \in DOMAIN d
                                    THEN PyStr(d["attribute_name"]) ELSE <<>>)}

\* an attribute row (lines 3449-3477)
ReconcileAttribute(c, d) ==
  IF "attribute_name" \notin DOMAIN d \/ ~Truthy(d["attribute_name"])
  THEN {Result(Logged(c, "Kein Attribut-Name", TRUE), "errors", "rejected", FALSE, d)}
  ELSE IF "attribute_values" \in DOMAIN d /\ d["attribute_values"].t # "str"
  THEN {Raised(c, d)}
  ELSE {IF k.r THEN Result(Logged(k.c, "Attribut", FALSE), "success", "attribute", TRUE, d)
        ELSE Result(Logged(k.c, "Fehler Attribut", TRUE), "errors", "attribute", TRUE, d) :
          k \in create_attribute(c, PyStr(d["attribute_name"]))}

\* the attribute keys of a variant row with a name of their own
FixedAttributes == {"attribute_color", "attribute_size", "attribute_material"}

\* the attribute keys of a variant row whose value is "name:value"
DynamicAttributes == {"attribute_1", "attribute_2", "attribute_3"}

\* the keys of the record that give the variant an attribute (lines 3490-3503)
AttributeKeys(d) ==
  {k \in FixedAttributes \cap DOMAIN d : Truthy(d[k])}
  \cup {k \in DynamicAttributes \cap DOMAIN d :
          Truthy(d[k]) /\ IsSubstring(<<":">>, PyStr(d[k]))}

\* create_variant reaches its POST: the default item name joins the
\* attribute values, which raises inside its try for a value that is not a str
CanPost(d) ==
  \/ "item_name" \in DOMAIN d /\ Truthy(d["item_name"])
  \/ \A k \in AttributeKeys(d) \cap FixedAttributes : d[k].t = "str"

\* a variant row that is posted without an attribute as well
ReconcileVariantNoAttributes(c, d) ==
  IF \/ "item_code" \notin DOMAIN d \/ ~Truthy(d["item_code"])
     \/ "variant_of" \notin DOMAIN d \/ ~Truthy(d["variant_of"])
  THEN {Result(Logged(c, "Varianten-Code oder Vorlage fehlt", TRUE),
               "errors", "rejected", FALSE, d)}
  ELSE {IF k.r THEN Result(Logged(k.c, "Variante", FALSE), "success", "variant", TRUE, d)
        ELSE Result(Logged(k.c, "Fehler Variante", TRUE), "errors", "variant", TRUE, d) :
          k \in create_variant(c, PyStr(d["variant_of"]), PyStr(d["item_code"]),
                               CanPost(d))}

\* a variant row (lines 3479-3529)
ReconcileVariant(c, d) ==
  IF \/ "item_code" \notin DOMAIN d \/ ~Truthy(d["item_code"])
     \/ "variant_of" \notin DOMAIN d \/ ~Truthy(d["variant_of"])
  THEN {Result(Logged(c, "Varianten-Code oder Vorlage fehlt", TRUE),
               "errors", "rejected", FALSE, d)}
  ELSE IF AttributeKeys(d) = {}
  THEN {Result(Logged(c, "Keine Attribute fuer Variante", TRUE),
               "errors", "rejected", FALSE, d)}
  ELSE {IF k.r THEN Result(Logged(k.c, "Variante", FALSE), "success", "variant", TRUE, d)
        ELSE Result(Logged(k.c, "Fehler Variante", TRUE), "errors", "variant", TRUE, d) :
          k \in create_variant(c, PyStr(d["variant_of"]), PyStr(d["item_code"]),
                               CanPost(d))}

\* the body of the loop of _run_import for one row (lines 3312-3542): the
\* set of its possible results
ProcessRow(c, fm, row, type, mode, is_dry, has_api) ==
  UNION {
    IF s.raised THEN {Raised(s.c, s.d)}
    ELSE IF is_dry THEN {Result(Logged(s.c, "[DRY]", FALSE), "success", "dry", TRUE, s.d)}
    ELSE IF ~has_api
    THEN {Result(Logged(s.c, "[NO API]", FALSE), "success", "noapi", TRUE, s.d)}
    ELSE IF type \in {"artikel", "preise"} THEN ReconcileItem(s.c, s.d, mode)
    ELSE IF type = "kategorien" THEN ReconcileGroup(s.c, s.d)
    ELSE IF type = "attribute" THEN ReconcileAttribute(s.c, s.d)
    ELSE ReconcileVariant(s.c, s.d)
    : s \in IF type \in {"artikel", "preise"}
            THEN CategoryStep(c, BuildRecord(fm, row), has_api, is_dry)
            ELSE {[c |-> c, d |-> BuildRecord(fm, row), raised |-> FALSE]}}

(* --------------------------- import inputs ---------------------------- *)

\* the header row of the file an import runs on
ImportColumns == <<ColSKU, ColNettoPreis, ColKat, ColXyz>>

\* one data row of that file
DataRow(sku, preis, kat, xyz) ==
  (ColSKU :> sku) @@ (ColNettoPreis :> preis) @@ (ColKat :> kat) @@ (ColXyz :> xyz)

\* the data rows a file is made of
ImportRows ==
  {DataRow(<<"A","1">>, <<"1","1","9",",","0","0">>, <<>>, <<"g">>),
   DataRow(<<"A","1">>, <<>>, <<"M"," ",">"," ","R">>, <<"g">>),
   DataRow(<<>>, <<>>, <<>>, <<"g">>),
   DataRow(<<"A","1">>, <<"0">>, <<"5">>, <<"g">>)}

\* the rows of a file
MaxRows == 2

\* the files an import runs on
ImportData == UNION {[1..n -> ImportRows] : n \in 0..MaxRows}

\* a FieldMapping with a transform picked in its row
Mapping(source_column, target_field, transform) ==
  [source_column |-> source_column, target_field |-> target_field,
   transform |-> transform, default_value |-> <<>>]

\* the mapping sets an import runs with, by import type; the empty one is the
\* set after clear_mappings
MappingSets(type) ==
  {<<>>} \cup
  IF type \in {"artikel", "preise"}
  THEN {<<Mapping(ColSKU, "item_code", "none"),
          Mapping(ColNettoPreis, "standard_rate", "number"),
          Mapping(ColKat, "category_path", "none")>>,
        <<Mapping(ColSKU, "item_code", "trim"),
          Mapping(ColNettoPreis, "standard_rate_brutto", "none"),
          Mapping(ColKat, "category_level_1", "number")>>,
        <<Mapping(ColNettoPreis, "standard_rate", "none")>>}
  ELSE IF type = "kategorien"
  THEN {<<Mapping(ColKat, "item_group_name", "none")>>,
        <<Mapping(ColSKU, "item_group_name", "trim"),
          Mapping(ColKat, "parent_item_group", "none")>>}
  ELSE IF type = "attribute"
  THEN {<<Mapping(ColXyz, "item_group_name", "none"),
          Mapping(ColSKU, "attribute_name", "none"),
          Mapping(ColNettoPreis, "attribute_values", "none")>>,
        <<Mapping(ColXyz, "item_group_name", "none"),
          Mapping(ColSKU, "attribute_name", "none"),
          Mapping(ColNettoPreis, "attribute_values", "number")>>,
        <<Mapping(ColXyz, "item_group_name", "none"),
          Mapping(ColNettoPreis, "attribute_values", "none")>>,
        <<Mapping(ColSKU, "attribute_name", "none"),
          Mapping(ColNettoPreis, "attribute_values", "none")>>}
  ELSE {<<Mapping(ColXyz, "item_group_name", "none"),
          Mapping(ColSKU, "item_code", "none"),
          Mapping(ColKat, "variant_of", "none"),
          Mapping(ColNettoPreis, "attribute_color", "none")>>,
        <<Mapping(ColSKU, "item_code", "none"),
          Mapping(ColKat, "variant_of", "none"),
          Mapping(ColNettoPreis, "attribute_1", "none")>>}

\* the values of the import_mode radio group
ImportModes == {"create", "update", "upsert"}

\* what the remote system holds when the importer starts
RemoteStates ==
  {[items |-> {}, groups |-> {}],
   [items |-> {<<"A","1">>}, groups |-> {}],
   [items |-> {}, groups |-> {<<"M">>}],
   [items |-> {<<"A","1">>}, groups |-> {<<"M">>, <<"R">>}]}

\* the batches a run of the model starts
MaxWorkers == 1

\* the batches a run of the model starts while another batch runs
MaxOverlap == 1

\* the threads of a run of the model
MaxThreads == MaxWorkers + MaxOverlap

\* before the first row of the first batch
NoRow == [w |-> 0, row |-> 0, tally |-> "", path |-> "", progress |-> FALSE,
          record |-> EmptyRecord, item_data |-> EmptyRecord, first_call |-> 0,
          live |-> FALSE, has_api |-> FALSE, logs |-> <<>>]

(* ------------------------------- import ------------------------------- *)

\* the target fields start_import requires (lines 3277-3281)
Required(type) ==
  IF type \in {"artikel", "preise"} THEN {"item_code"} ELSE {"item_group_name"}

\* the problem start_import reports, "" when it starts the batch
StartProblem ==
  IF source_data = <<>> THEN "Keine Daten!"
  ELSE IF field_mappings = <<>> THEN "Keine Mappings!"
  ELSE IF Required(import_type)
            \ {field_mappings[i].target_field : i \in 1..Len(field_mappings)} # {}
  THEN "Pflichtfelder fehlen"
  ELSE ""

\* the locals of _run_import before its first row (lines 3303-3309), and
\* for the record the mappings that start_import has just validated
NewWorker ==
  [rows |-> source_data, total |-> Len(source_data), i |-> 0, dry_run |-> dry_run,
   mode |-> import_mode, import_type |-> import_type, success |-> 0, errors |-> 0,
   skipped |-> 0, done |-> FALSE, validated |-> field_mappings]

\* start_import: a click on the start button, which is enabled
start_import ==
  /\ ~start_button_disabled
  /\ Cardinality({w \in 1..Len(workers) : workers[w].done}) < MaxWorkers
  /\ Len(workers) < MaxThreads
  /\ IF StartProblem # ""
     THEN /\ log_entries' = <<LogEntry(StartProblem, TRUE, NoParams)>>
          /\ UNCHANGED <<start_button_disabled, is_importing, workers>>
     ELSE /\ start_button_disabled' = TRUE
          /\ is_importing' = TRUE
          /\ workers' = Append(workers, NewWorker)
          /\ log_entries' = <<LogEntry("=== Import gestartet", FALSE, [dry_run |-> dry_run])>>
  /\ UNCHANGED <<csv_options, config, source_file, source_columns, source_data, import_type, field_mappings,
                 mapping_list, template_file, gemini, ai_thread, last, steps,
                 import_mode, dry_run, api, item_cache, item_group_cache, remote_items,
                 remote_groups, calls, progress, last_row>>

\* a loop that an error on a row ends
AfterRowAbortOnError(wk, res) ==
  [wk EXCEPT !.i = IF res.tally = "errors" THEN Len(wk.rows) ELSE @ + 1,
             !.success = IF res.tally = "success" THEN @ + 1 ELSE @,
             !.errors = IF res.tally = "errors" THEN @ + 1 ELSE @,
             !.skipped = IF res.tally = "skipped" THEN @ + 1 ELSE @]

\* the locals of _run_import after a row: the loop goes on to the next row
\* whatever became of this one (lines 3311, 3540-3542)
AfterRow(wk, res) ==
  [wk EXCEPT !.i = @ + 1,
             !.success = IF res.tally = "success" THEN @ + 1 ELSE @,
             !.errors = IF res.tally = "errors" THEN @ + 1 ELSE @,
             !.skipped = IF res.tally = "skipped" THEN @ + 1 ELSE @]

\* _run_import: one pass of its loop, for the next row of a worker
run_import_row ==
  \E w \in 1..Len(workers) :
    /\ workers[w].i < Len(workers[w].rows)
    /\ \E res \in ProcessRow(RowStart(w, workers[w].i), field_mappings,
                             workers[w].rows[workers[w].i + 1], workers[w].import_type,
                             workers[w].mode, workers[w].dry_run, api) :
         /\ workers' = [workers EXCEPT ![w] = AfterRow(@, res)]
         /\ item_cache' = res.c.item_cache
         /\ item_group_cache' = res.c.item_group_cache
         /\ remote_items' = res.c.remote_items
         /\ remote_groups' = res.c.remote_groups
         /\ calls' = res.c.calls
         /\ log_entries' = res.c.logs
         /\ progress' =
              IF res.progress
              THEN Append(progress, [w |-> w, index |-> workers[w].i + 1,
                                     total |-> workers[w].total])
              ELSE progress
         /\ last_row' = [w |-> w, row |-> workers[w].i, tally |-> res.tally,
                         path |-> res.path, progress |-> res.progress,
                         record |-> BuildRecord(field_mappings,
                                                workers[w].rows[workers[w].i + 1]),
                         item_data |-> res.item_data, first_call |-> Len(calls) + 1,
                         live |-> ~workers[w].dry_run, has_api |-> api,
                         logs |-> res.c.logs]
    /\ UNCHANGED <<csv_options, config, source_file, source_columns, source_data, import_type, field_mappings,
                   mapping_list, template_file, gemini, ai_thread, start_button_disabled,
                   last, steps, import_mode, dry_run, api, is_importing>>

\* _run_import after its loop (lines 3544-3550)
run_import_end ==
  \E w \in 1..Len(workers) :
    /\ workers[w].i = Len(workers[w].rows)
    /\ ~workers[w].done
    /\ workers' = [workers EXCEPT ![w].done = TRUE]
    /\ log_entries' =
         <<LogEntry("=== Import abgeschlossen ===", FALSE, NoParams),
           LogEntry("Erfolgreich | Fehler | Uebersprungen", FALSE,
                    [success |-> workers[w].success, errors |-> workers[w].errors,
                     skipped |-> workers[w].skipped])>>
    /\ start_button_disabled' = FALSE
    /\ is_importing' = FALSE
    /\ UNCHANGED <<csv_options, config, source_file, source_columns, source_data, import_type, field_mappings,
                   mapping_list, template_file, gemini, ai_thread, last, steps,
                   import_mode, dry_run, api, item_cache, item_group_cache, remote_items,
                   remote_groups, calls, progress, last_row>>

\* test_connection: a new ERPNextAPI object, whatever the test says
test_connection ==
  /\ \E success \in BOOLEAN :
       log_entries' = <<LogEntry(IF success THEN "Verbindung OK" ELSE "Verbindungsfehler",
                                 ~success, NoParams)>>
  /\ api' = TRUE
  /\ item_cache' = {}
  /\ item_group_cache' = {}
  /\ UNCHANGED <<csv_options, config, source_file, source_columns, source_data, import_type, field_mappings,
                 mapping_list, template_file, gemini, ai_thread, start_button_disabled,
                 last, steps, import_mode, dry_run, remote_items, remote_groups,
                 is_importing, workers, calls, progress, last_row>>

\* the remote system, between two requests of the importer: another user
\* deletes (or renames away) an item or an item group
remote_change ==
  /\ \/ \E item_code \in remote_items :
          /\ remote_items' = remote_items \ {item_code}
          /\ UNCHANGED remote_groups
     \/ \E name \in remote_groups :
          /\ remote_groups' = remote_groups \ {name}
          /\ UNCHANGED remote_items
  /\ UNCHANGED <<csv_options, config, source_file, source_columns, source_data, import_type,
                 field_mappings, mapping_list, log_entries, template_file, gemini, ai_thread,
                 start_button_disabled, last, steps, import_mode, dry_run, api, item_cache,
                 item_group_cache, is_importing, workers, calls, progress, last_row>>

\* _run_import: one pass of its loop in which self.page.update() of the
\* progress lines (line 3537) raises, as it does once the window is gone:
\* the row has its tally already, and the except clause (lines 3540-3542)
\* counts an error as well
run_import_row_update_raises ==
  \E w \in 1..Len(workers) :
    /\ workers[w].i < Len(workers[w].rows)
    /\ \E res \in ProcessRow(RowStart(w, workers[w].i), field_mappings,
                             workers[w].rows[workers[w].i + 1], workers[w].import_type,
                             workers[w].mode, workers[w].dry_run, api) :
         /\ res.progress
         /\ workers' = [workers EXCEPT ![w] = [AfterRow(@, res) EXCEPT !.errors = @ + 1]]
         /\ item_cache' = res.c.item_cache
         /\ item_group_cache' = res.c.item_group_cache
         /\ remote_items' = res.c.remote_items
         /\ remote_groups' = res.c.remote_groups
         /\ calls' = res.c.calls
         /\ log_entries' = Logged(res.c, "Fehler Zeile", TRUE).logs
         /\ last_row' = [w |-> w, row |-> workers[w].i, tally |-> res.tally,
                         path |-> "update_raised", progress |-> FALSE,
                         record |-> BuildRecord(field_mappings,
                                                workers[w].rows[workers[w].i + 1]),
                         item_data |-> res.item_data, first_call |-> Len(calls) + 1,
                         live |-> ~workers[w].dry_run, has_api |-> api,
                         logs |-> Logged(res.c, "Fehler Zeile", TRUE).logs]
    /\ UNCHANGED <<csv_options, config, source_file, source_columns, source_data, import_type,
                   field_mappings, mapping_list, template_file, gemini, ai_thread,
                   start_button_disabled, last, steps, import_mode, dry_run, api,
                   is_importing, progress>>
(* ---------------------- the records of single rows -------------------- *)

\* the texts of a category path column
CategoryPaths ==
  {<<"M"," ",">"," ","R">>, <<"A","/","B","/","C">>, <<"A"," ",">"," ","B","/","C">>,
   <<"A",">","B","|","C">>, <<"A","|","B">>, <<" ","A"," ">>, <<"A"," ",">"," "," ",">"," ","B">>,
   <<"A"," ","-",">"," ","B">>, <<"A"," ",">",">"," ","B">>, <<"A"," ","/"," ","B">>,
   <<" "," "," ">>, <<" ",">"," ">>, <<"A">>, <<"A"," ",">",">"," ","B"," ",">"," ","C">>,
   <<"A","-",">","B">>}

\* the texts of a gross price column
PriceTexts ==
  {<<"1","1","9",",","0","0">>, <<"1","0","7">>, <<"1",",","1","9">>, <<"0">>, <<"a","b","c">>,
   <<"5","9",",","5","0">>}

\* the texts of a barcode column
BarcodeTexts ==
  {<<"1","2","3","4","5","6","7","8">>, <<"1","2","3","4","5","6","7">>, <<"A","B","C","D","E","F","G","H">>,
   <<"0","0","0","0","0","0","0","0">>, <<" ","1","2","3","4","5","6","7","8"," ">>,
   <<"0">>, <<"4","0","1","7","9","8","0","0","0","0","0","0","0">>, <<"4","0","0","6","3","8","1","3","3","3","9","3","1">>}

\* the texts of an active-flag column
ActiveTexts ==
  {<<"1">>, <<"0">>, <<"t","r","u","e">>, <<"J","a">>, <<"a","k","t","i","v">>, <<"A","K","T","I","V">>,
   <<"n","e","i","n">>, <<>>}

\* the texts of a column mapped to a plain field
PlainTexts ==
  {<<"0">>, <<"1">>, <<"f","a","l","s","e">>, <<>>, <<"a","b","c">>, <<" ">>, <<"<","b",">">>,
   <<"a","<","b",">","c">>}

\* the texts of a column of numbers in German and in plain notation
NumberTexts ==
  {<<"1",".","2","3","4",",","5","6">>, <<"1","2","3","4",",","5","6">>,
   <<"1"," ","2","3","4",",","5">>, <<"1",".","5">>, <<"-","3",",","5">>, <<" ","7"," ">>,
   <<"1",",","2",",","3">>, <<"a","b","c">>, <<"0">>, <<"1",".","2","3","4",".","5","6">>}

\* the values of the transform dropdown of a mapping row (lines 2947-2960)
Transforms ==
  {"none", "trim", "uppercase", "lowercase", "number", "bool", "html_strip"}

\* the tax rates a configuration is given
TaxRates == {DefaultTaxRate, 7}

\* the mapping of the item code, which every case has
CodeMapping == Mapping(ColSKU, "item_code", "none")

\* a file that holds one row twice, and the mappings it is imported with
Case(fm, preis, kat, xyz) ==
  [type |-> "artikel", fm |-> fm,
   data |-> <<DataRow(<<"A","1">>, preis, kat, xyz), DataRow(<<"A","1">>, preis, kat, xyz)>>]

\* the texts of an attribute column of a variant row
SlotTexts ==
  {<<>>, <<"r","o","t">>, <<"F",":","r","o","t">>, <<":">>, <<"5">>}

\* the target fields an attribute column of a variant row is mapped to
SlotTargets == FixedAttributes \cup DynamicAttributes \cup {"item_name"}

\* the variant rows: with and without a code, with and without a template,
\* and one column on one attribute slot
VariantCases ==
  {[type |-> "varianten",
    fm |-> <<Mapping(ColXyz, "item_group_name", "none"), CodeMapping,
             Mapping(ColKat, "variant_of", "none"), Mapping(ColNettoPreis, slot, x)>>,
    data |-> <<DataRow(sku, v, kat, <<"g">>), DataRow(sku, v, kat, <<"g">>)>>] :
     sku \in {<<>>, <<"V","1">>}, kat \in {<<>>, <<"T">>}, slot \in SlotTargets,
     v \in SlotTexts, x \in {"none", "number"}}

\* the cases of single rows: a category path; level columns with and without
\* a path; a gross price; a barcode; an active flag; a plain field; a number;
\* the two descriptions
RecordCases ==
  {Case(<<CodeMapping, Mapping(ColKat, "category_path", "none")>>, <<>>, p, <<>>) :
     p \in CategoryPaths}
  \cup
  {Case(<<CodeMapping, Mapping(ColXyz, "category_level_3", "none"),
          Mapping(ColNettoPreis, "category_level_1", "none"),
          Mapping(ColKat, "category_path", "none")>>, l1, p, l3) :
     l1 \in {<<>>, <<"X">>}, l3 \in {<<>>, <<"Z">>},
     p \in {<<>>, <<"M"," ",">"," ","R">>, <<" "," "," ">>}}
  \cup
  {Case(<<CodeMapping, Mapping(ColNettoPreis, "standard_rate_brutto", x)>>, v, <<>>, <<>>) :
     x \in {"none", "number"}, v \in PriceTexts}
  \cup
  {Case(<<CodeMapping, Mapping(ColXyz, "barcode", x)>>, <<>>, <<>>, v) :
     x \in {"none", "trim", "uppercase"}, v \in BarcodeTexts}
  \cup
  {Case(<<CodeMapping, Mapping(ColXyz, "disabled", x)>>, <<>>, <<>>, v) :
     x \in Transforms, v \in ActiveTexts}
  \cup
  {Case(<<CodeMapping, Mapping(ColXyz, "item_name", x)>>, <<>>, <<>>, v) :
     x \in Transforms, v \in PlainTexts}
  \cup
  {Case(<<CodeMapping, Mapping(ColXyz, "item_name", "number")>>, <<>>, <<>>, v) :
     v \in NumberTexts}
  \cup
  {Case(<<CodeMapping, Mapping(ColXyz, "description_html", x)>> \o plain, <<>>, kat, v) :
     x \in {"none", "html_strip"}, v \in {<<>>, <<"<","b",">">>, <<"a","<","b",">","c">>},
     plain \in {<<>>, <<Mapping(ColKat, "description", "none")>>}, kat \in {<<>>, <<"T">>}}
  \cup VariantCases

\* the mappings a user has set up before a template is saved: with transforms
\* and default values, in and out of column order, on columns of the files
\* and on another column
TemplateMappingSets ==
  {<<[source_column |-> ColSKU, target_field |-> "item_code", transform |-> "trim",
      default_value |-> <<"x">>],
     [source_column |-> ColKat, target_field |-> "item_group", transform |-> "uppercase",
      default_value |-> <<>>]>>,
   <<[source_column |-> ColKat, target_field |-> "item_name", transform |-> "none",
      default_value |-> <<>>],
     [source_column |-> ColSKU, target_field |-> "item_code", transform |-> "number",
      default_value |-> <<"0">>]>>,
   <<[source_column |-> ColXyz, target_field |-> "barcode", transform |-> "bool",
      default_value |-> <<>>]>>}

\* the CSV options a user has picked
CsvOptions ==
  {DefaultCsvOptions,
   [csv_delimiter |-> ",", csv_encoding |-> "cp1252", skip_header |-> FALSE]}

(* --------------------------- specification ---------------------------- *)

\* the application after ERPNextImporterApp.__init__
Init ==
  /\ source_file = ""
  /\ source_columns = <<>>
  /\ source_data = <<>>
  /\ import_type = "artikel"
  /\ field_mappings = <<>>
  /\ mapping_list = <<>>
  /\ log_entries = <<>>
  /\ template_file = NoTemplate
  /\ gemini = TRUE
  /\ ai_thread = NoThread
  /\ start_button_disabled = TRUE
  /\ last = Last("init", <<>>, "", <<>>, <<>>, <<>>)
  /\ steps = 0
  /\ import_mode = "upsert"
  /\ dry_run = FALSE
  /\ api = FALSE
  /\ item_cache = {}
  /\ item_group_cache = {}
  /\ remote_items = {}
  /\ remote_groups = {}
  /\ is_importing = FALSE
  /\ workers = <<>>
  /\ calls = <<>>
  /\ progress = <<>>
  /\ last_row = NoRow
  /\ config = [default_tax_rate |-> DefaultTaxRate]
  /\ csv_options = DefaultCsvOptions

\* the handlers of the mapping tab
Next ==
  \/ on_file_picked
  \/ reload_file
  \/ on_import_type_changed
  \/ on_mapping_changed
  \/ auto_map_fields
  \/ clear_mappings
  \/ ai_smart_map_fields
  \/ run_ai_mapping
  \/ save_template
  \/ on_template_loaded

Spec == Init /\ [][Next]_vars

\* the application with a file parsed, its columns mapped and the import
\* options set, before the connection test and the start of the import
InitImport ==
  /\ source_file = "import.csv"
  /\ source_columns = ImportColumns
  /\ source_data \in ImportData
  /\ import_type \in ImportTypes
  /\ field_mappings \in MappingSets(import_type)
  /\ mapping_list =
       [i \in 1..Len(ImportColumns) |->
          [source_text |-> ImportColumns[i],
           dropdown |-> IF HasKey(field_mappings, ImportColumns[i])
                        THEN Get(field_mappings, ImportColumns[i]).target_field
                        ELSE ""]]
  /\ log_entries = <<>>
  /\ template_file = NoTemplate
  /\ gemini = TRUE
  /\ ai_thread = NoThread
  /\ start_button_disabled = FALSE
  /\ last = Last("init", <<>>, "", <<>>, <<>>, <<>>)
  /\ steps = 0
  /\ import_mode \in ImportModes
  /\ dry_run \in BOOLEAN
  /\ api = FALSE
  /\ item_cache = {}
  /\ item_group_cache = {}
  /\ \E remote \in RemoteStates :
       /\ remote_items = remote.items
       /\ remote_groups = remote.groups
  /\ is_importing = FALSE
  /\ workers = <<>>
  /\ calls = <<>>
  /\ progress = <<>>
  /\ last_row = NoRow
  /\ config = [default_tax_rate |-> DefaultTaxRate]
  /\ csv_options = DefaultCsvOptions

\* the connection test, the start button and the import thread
NextImport ==
  \/ test_connection
  \/ start_import
  \/ run_import_row
  \/ run_import_end

SpecImport == InitImport /\ [][NextImport]_vars

\* a worker has a row left: run_import_row is enabled
RowPending == \E w \in 1..Len(workers) : workers[w].i < Len(workers[w].rows)

\* a worker went on to its next row: a step of run_import_row
RowAdvance == \E w \in 1..Len(workers) : workers'[w].i = workers[w].i + 1

\* The import thread runs on its own once start_import has started it
\* (line 3298), and every request it makes returns or times out (line 756):
\* the lines after the loop are taken when they can be, and so is a pass of
\* the loop.  The weak fairness of run_import_row is written out, with
\* RowPending for ENABLED <<run_import_row>>_vars and RowAdvance for
\* <<run_import_row>>_vars.
SpecImportLive ==
  /\ SpecImport
  /\ WF_vars(run_import_end)
  /\ ([]<>(~RowPending) \/ []<><<RowAdvance>>_vars)


\* the application with a one-row file parsed and its columns mapped, for
\* each of the cases of single rows, with a tax rate configured
InitRecord ==
  /\ source_file = "import.csv"
  /\ source_columns = ImportColumns
  /\ \E case \in RecordCases :
       /\ source_data = case.data
       /\ field_mappings = case.fm
       /\ import_type = case.type
  /\ mapping_list =
       [i \in 1..Len(ImportColumns) |->
          [source_text |-> ImportColumns[i],
           dropdown |-> IF HasKey(field_mappings, ImportColumns[i])
                        THEN Get(field_mappings, ImportColumns[i]).target_field
                        ELSE ""]]
  /\ log_entries = <<>>
  /\ template_file = NoTemplate
  /\ gemini = TRUE
  /\ ai_thread = NoThread
  /\ start_button_disabled = FALSE
  /\ last = Last("init", <<>>, "", <<>>, <<>>, <<>>)
  /\ steps = 0
  /\ import_mode = "upsert"
  /\ dry_run \in BOOLEAN
  /\ api = FALSE
  /\ item_cache = {}
  /\ item_group_cache = {}
  /\ remote_items = {}
  /\ remote_groups = {}
  /\ is_importing = FALSE
  /\ workers = <<>>
  /\ calls = <<>>
  /\ progress = <<>>
  /\ last_row = NoRow
  /\ \E r \in TaxRates : config = [default_tax_rate |-> r]
  /\ csv_options = DefaultCsvOptions

\* the import of single rows
SpecRecord == InitRecord /\ [][NextImport]_vars

\* the application with mappings set up by hand, with or without a file
InitTemplate ==
  /\ source_file \in {"", "a.csv"}
  /\ source_columns = IF source_file = "" THEN <<>> ELSE FileColumns(source_file)
  /\ source_data = IF source_file = "" THEN <<>> ELSE FileRows(source_file)
  /\ import_type = "artikel"
  /\ field_mappings \in TemplateMappingSets
  /\ mapping_list =
       [i \in 1..Len(source_columns) |->
          [source_text |-> source_columns[i],
           dropdown |-> IF HasKey(field_mappings, source_columns[i])
                        THEN Get(field_mappings, source_columns[i]).target_field
                        ELSE ""]]
  /\ log_entries = <<>>
  /\ template_file = NoTemplate
  /\ gemini = TRUE
  /\ ai_thread = NoThread
  /\ start_button_disabled = (source_file = "")
  /\ last = Last("init", <<>>, "", <<>>, <<>>, <<>>)
  /\ steps = 0
  /\ import_mode = "upsert"
  /\ dry_run = FALSE
  /\ api = FALSE
  /\ item_cache = {}
  /\ item_group_cache = {}
  /\ remote_items = {}
  /\ remote_groups = {}
  /\ is_importing = FALSE
  /\ workers = <<>>
  /\ calls = <<>>
  /\ progress = <<>>
  /\ last_row = NoRow
  /\ config = [default_tax_rate |-> DefaultTaxRate]
  /\ csv_options \in CsvOptions

\* the mapping tab with templates saved and loaded
SpecTemplate == InitTemplate /\ [][Next]_vars

\* the handlers of the mapping tab a user runs while batches run
MaxFileSteps == 2

\* the application with the file a.csv parsed and auto-mapped, before an
\* import of it is started
InitConcurrent ==
  /\ source_file = "a.csv"
  /\ source_columns = FileColumns("a.csv")
  /\ source_data = FileRows("a.csv")
  /\ import_type = "artikel"
  /\ field_mappings = CreateRows(FileColumns("a.csv"), 1, <<>>)
  /\ mapping_list = NewMappingList(FileColumns("a.csv"))
  /\ log_entries = <<>>
  /\ template_file = NoTemplate
  /\ gemini = TRUE
  /\ ai_thread = NoThread
  /\ start_button_disabled = FALSE
  /\ last = Last("on_file_picked", <<>>, "", <<>>, AutoTargets(FileColumns("a.csv")), <<>>)
  /\ steps = MaxSteps - MaxFileSteps
  /\ import_mode = "upsert"
  /\ dry_run = FALSE
  /\ api \in BOOLEAN
  /\ item_cache = {}
  /\ item_group_cache = {}
  /\ remote_items = {<<"A","1">>}
  /\ remote_groups = {}
  /\ is_importing = FALSE
  /\ workers = <<>>
  /\ calls = <<>>
  /\ progress = <<>>
  /\ last_row = NoRow
  /\ config = [default_tax_rate |-> DefaultTaxRate]
  /\ csv_options = DefaultCsvOptions

\* the import thread and the user, who picks and reloads files, tests the
\* connection and clicks the start button
NextConcurrent ==
  \/ on_file_picked
  \/ reload_file
  \/ test_connection
  \/ start_import
  \/ run_import_row
  \/ run_import_end

SpecConcurrent == InitConcurrent /\ [][NextConcurrent]_vars

\* the application with the file export.csv parsed and auto-mapped, connected
\* or not, and a remote system that has no item and none, one or both of the
\* groups of the file
InitScenario ==
  /\ source_file = "export.csv"
  /\ source_columns = ScenarioColumns
  /\ source_data = <<ScenarioRow>>
  /\ import_type = "artikel"
  /\ field_mappings = CreateRows(ScenarioColumns, 1, <<>>)
  /\ mapping_list = NewMappingList(ScenarioColumns)
  /\ log_entries = <<>>
  /\ template_file = NoTemplate
  /\ gemini = TRUE
  /\ ai_thread = NoThread
  /\ start_button_disabled = FALSE
  /\ last = Last("on_file_picked", <<>>, "", <<>>, AutoTargets(ScenarioColumns), <<>>)
  /\ steps = MaxSteps - MaxFileSteps
  /\ import_mode = "upsert"
  /\ dry_run = FALSE
  /\ api \in BOOLEAN
  /\ item_cache = {}
  /\ item_group_cache = {}
  /\ remote_items = {}
  /\ remote_groups \in {{}, {<<"M","ö","b","e","l">>},
                        {<<"M","ö","b","e","l">>, <<"R","e","g","a","l","e">>}}
  /\ is_importing = FALSE
  /\ workers = <<>>
  /\ calls = <<>>
  /\ progress = <<>>
  /\ last_row = NoRow
  /\ config = [default_tax_rate |-> DefaultTaxRate]
  /\ csv_options = DefaultCsvOptions

\* the import thread and the user, who maps by the button and by hand, tests
\* the connection and clicks the start button
NextScenario ==
  \/ auto_map_fields
  \/ on_mapping_changed
  \/ test_connection
  \/ start_import
  \/ run_import_row
  \/ run_import_end

SpecScenario == InitScenario /\ [][NextScenario]_vars

\* the import with a remote system that other users change during a run
NextCache ==
  \/ test_connection
  \/ start_import
  \/ run_import_row
  \/ run_import_end
  \/ remote_change

\* a live upsert, before the connection is made
InitCache == InitImport /\ import_mode = "upsert" /\ ~dry_run

SpecCache == InitCache /\ [][NextCache]_vars

\* the import with a user interface whose update can fail
NextTally ==
  \/ test_connection
  \/ start_import
  \/ run_import_row
  \/ run_import_row_update_raises
  \/ run_import_end

SpecTally == InitImport /\ [][NextTally]_vars

\* the import thread and the user, who works on the mappings while a batch
\* runs
NextBusy ==
  \/ on_mapping_changed
  \/ auto_map_fields
  \/ clear_mappings
  \/ on_import_type_changed
  \/ test_connection
  \/ start_import
  \/ run_import_row
  \/ run_import_end

SpecBusy == InitConcurrent /\ [][NextBusy]_vars

(* ------------------------------- claims ------------------------------- *)

\* the source columns of a dict, in its order
Keys(d) == [i \in 1..Len(d) |-> d[i].source_column]

\* the mappings of a dict that hold a target
Holders(d, target_field) == SelectSeq(d, LAMBDA m : m.target_field = target_field)

\* the first place of a column among the source columns, 0 when it is not one
ColumnIndex(col) ==
  IF \E i \in 1..Len(source_columns) : source_columns[i] = col
  THEN CHOOSE i \in 1..Len(source_columns) :
         /\ source_columns[i] = col
         /\ \A j \in 1..Len(source_columns) : source_columns[j] = col => i <= j
  ELSE 0

\* a manual edit that took a target from other columns has just run
ManualEviction ==
  /\ last.op = "on_mapping_changed"
  /\ last.target # ""
  /\ Len(Evicted(last.pre, last.col, last.target)) > 0

\* a log entry names a column as one of its values
NoticeNamesColumn(e, col) ==
  \E k \in DOMAIN e.params \cap {"source_col", "other_col", "source_column"} :
    e.params[k] = col

\* a log entry names a target field as one of its values
NoticeNamesTarget(e, target_field) ==
  /\ "target_field" \in DOMAIN e.params
  /\ e.params.target_field = target_field

\* what a manual edit that evicts does to the dict and the dropdowns
EvictionDone ==
  /\ \A k \in 1..Len(Evicted(last.pre, last.col, last.target)) :
       /\ ~HasKey(field_mappings, Evicted(last.pre, last.col, last.target)[k].source_column)
       /\ \A i \in 1..Len(mapping_list) :
            /\ mapping_list[i].source_text
                 = Evicted(last.pre, last.col, last.target)[k].source_column
            /\ DropdownRow(mapping_list, mapping_list[i].source_text) = i
            => mapping_list[i].dropdown = ""
  /\ HasKey(field_mappings, last.col)
  /\ Get(field_mappings, last.col).target_field = last.target
  /\ Len(Holders(field_mappings, last.target)) = 1

\* C1: after any sequence of mapping operations no two different source
\* columns of the active mapping set hold the same non-empty target field.
C1_UniqueTargets ==
  \A i, j \in 1..Len(field_mappings) :
    /\ field_mappings[i].target_field = field_mappings[j].target_field
    /\ field_mappings[i].target_field # ""
    => i = j

\* C2 as stated: a manual edit that assigns to column A a target held by a
\* different column B clears B, gives A the target, leaves exactly one holder,
\* and logs a notice that identifies B as the column that lost its mapping.
C2_NoticeNamesTheColumn ==
  ManualEviction =>
    /\ EvictionDone
    /\ \A k \in 1..Len(Evicted(last.pre, last.col, last.target)) :
         \E n \in 1..Len(log_entries) :
           NoticeNamesColumn(log_entries[n],
                             Evicted(last.pre, last.col, last.target)[k].source_column)

\* C2 as amended: a manual edit that assigns to column A a target held by
\* other columns removes each of them from the mapping set, gives A the
\* target, leaves exactly one holder, and logs one notice per evicted column
\* that names the target field, not the column.
C2_NoticeNamesTheTarget ==
  ManualEviction =>
    /\ EvictionDone
    /\ Len(log_entries) = Len(Evicted(last.pre, last.col, last.target))
    /\ \A n \in 1..Len(log_entries) :
         /\ NoticeNamesTarget(log_entries[n], last.target)
         /\ \A c \in ColumnUniverse : ~NoticeNamesColumn(log_entries[n], c)

\* C2, the case: a manual edit has evicted a column that has a dropdown
C2_Witness ==
  /\ ManualEviction
  /\ \E i \in 1..Len(mapping_list) :
       mapping_list[i].source_text = Evicted(last.pre, last.col, last.target)[1].source_column

\* the AI pass has just stored a suggestion
AiPass == last.op = "run_ai_mapping" /\ last.ai # <<>>

\* the proposal's column has a row in the mapping list
Present(p) == \E i \in 1..Len(mapping_list) : mapping_list[i].source_text = p.source

\* the first row of a column in the mapping list
RowIndex(col) ==
  CHOOSE i \in 1..Len(mapping_list) :
    /\ mapping_list[i].source_text = col
    /\ \A j \in 1..Len(mapping_list) : mapping_list[j].source_text = col => i <= j

\* the pass stored the proposal
Stored(p) ==
  /\ \E a \in 1..Len(last.accepted) : last.accepted[a] = p
  /\ HasKey(field_mappings, p.source)
  /\ Get(field_mappings, p.source).target_field = p.target

\* the pass dropped the proposal: the column's entry is as it was before
Dropped(p) ==
  /\ \A a \in 1..Len(last.accepted) : last.accepted[a].source # p.source
  /\ HasKey(field_mappings, p.source) = HasKey(last.pre, p.source)
  /\ HasKey(field_mappings, p.source) =>
       Get(field_mappings, p.source) = Get(last.pre, p.source)

\* C3 as stated: of several AI proposals for one target the one that comes
\* first in the suggestion's own order receives it, the later ones are dropped.
C3_FirstInSuggestionOrder ==
  AiPass =>
    \A k \in 1..Len(last.ai) :
      Present(last.ai[k]) =>
        IF \A j \in 1..Len(last.ai) :
             Present(last.ai[j]) /\ last.ai[j].target = last.ai[k].target => k <= j
        THEN Stored(last.ai[k])
        ELSE Dropped(last.ai[k])

\* C3 as amended: of several AI proposals for one target the one whose column
\* comes first in source-column (mapping row) order receives it, whatever the
\* suggestion's order; every other proposal for that target is dropped and
\* leaves the earlier proposal in place.
C3_FirstInColumnOrder ==
  AiPass =>
    \A k \in 1..Len(last.ai) :
      Present(last.ai[k]) =>
        IF \A j \in 1..Len(last.ai) :
             Present(last.ai[j]) /\ last.ai[j].target = last.ai[k].target
             => RowIndex(last.ai[k].source) <= RowIndex(last.ai[j].source)
        THEN Stored(last.ai[k])
        ELSE Dropped(last.ai[k])

\* C3, the case: two proposals for one target, the later one in the
\* suggestion's order on the earlier row
C3_Witness ==
  /\ AiPass
  /\ \E j, k \in 1..Len(last.ai) :
       /\ j < k
       /\ last.ai[j].target = last.ai[k].target
       /\ Present(last.ai[j]) /\ Present(last.ai[k])
       /\ RowIndex(last.ai[k].source) < RowIndex(last.ai[j].source)
       /\ Stored(last.ai[k])

\* C4: every AI assignment the pass stores has a source column of
\* source_columns and a target that is a key of the catalog of the selected
\* import type; a failed or unparsable reply stores nothing.
C4_AcceptedInCatalog ==
  last.op = "run_ai_mapping" =>
    /\ \A a \in 1..Len(last.accepted) :
         /\ \E i \in 1..Len(source_columns) : source_columns[i] = last.accepted[a].source
         /\ last.accepted[a].target \in TargetFields(import_type)
    /\ last.target # "json" => field_mappings = last.pre

\* C5, the claimed algorithm, step by step
C5_Exact(col) == InRules(ReplaceChar(ReplaceChar(Lower(col), " ", "_"), "-", "_"))

C5_Stripped(col) ==
  SelectSeq(ReplaceChar(ReplaceChar(Lower(col), " ", "_"), "-", "_"), IsRuleChar)

C5_Target(col) ==
  LET name == ReplaceChar(ReplaceChar(Lower(col), " ", "_"), "-", "_")
      fuzzy == {i \in 1..Len(AUTO_MAPPING_RULES) :
                  \/ IsSubstring(AUTO_MAPPING_RULES[i][1], name)
                  \/ IsSubstring(name, AUTO_MAPPING_RULES[i][1])}
  IN IF C5_Exact(col) THEN RuleTarget(name)
     ELSE IF InRules(C5_Stripped(col)) THEN RuleTarget(C5_Stripped(col))
     ELSE IF fuzzy # {}
          THEN AUTO_MAPPING_RULES[CHOOSE i \in fuzzy : \A j \in fuzzy : i <= j][2]
          ELSE ""

C5_Table == [c \in ColumnUniverse |-> C5_Target(c)]

\* C5: for every column, auto-mapping (the rows built on a file load and the
\* auto-map action alike) computes the target of the first matching step:
\* exact name, stripped name, first rule that contains or is contained in the
\* name; no match leaves the column unmapped.
C5_AutoMappingSteps ==
  last.op \in {"on_file_picked", "reload_file", "on_import_type_changed",
               "on_template_loaded", "auto_map_fields"} =>
    \A i \in 1..Len(last.auto) : last.auto[i] = C5_Table[mapping_list[i].source_text]

\* no entry of the mapping set has an empty target
NoEmptyTarget == \A i \in 1..Len(field_mappings) : field_mappings[i].target_field # ""

\* C6 as stated: the mapping set lists its mappings in source-column order,
\* and an evicted column is absent rather than present with an empty target.
C6_SourceColumnOrder ==
  /\ NoEmptyTarget
  /\ \A i, j \in 1..Len(field_mappings) :
       /\ i < j
       /\ ColumnIndex(field_mappings[i].source_column) # 0
       /\ ColumnIndex(field_mappings[j].source_column) # 0
       => ColumnIndex(field_mappings[i].source_column)
            < ColumnIndex(field_mappings[j].source_column)

\* C6 as amended: the mapping set lists its mappings in the order in which
\* their columns were inserted (a column assigned again after its eviction
\* goes last), not in source-column order; an evicted column is absent
\* rather than present with an empty target.
C6_InsertionOrder ==
  /\ NoEmptyTarget
  /\ \A i, j \in 1..Len(field_mappings) :
       field_mappings[i].source_column = field_mappings[j].source_column => i = j
  /\ last.op = "on_mapping_changed" =>
       LET kept == SelectSeq(last.pre, LAMBDA m :
                     IF m.source_column = last.col THEN last.target # ""
                     ELSE last.target = "" \/ m.target_field # last.target)
       IN Keys(field_mappings) =
            IF last.target = "" \/ HasKey(kept, last.col) THEN Keys(kept)
            ELSE Append(Keys(kept), last.col)

\* C6, the case: a column assigned again after its eviction evicts another
\* and stands after a column that follows it in the file
C6_Witness ==
  /\ ManualEviction
  /\ ~HasKey(last.pre, last.col)
  /\ \E i \in 1..Len(field_mappings) :
       /\ i < Len(field_mappings)
       /\ ColumnIndex(field_mappings[i].source_column) > ColumnIndex(last.col)
       /\ ColumnIndex(last.col) > 0

(* --------------------------- import claims ---------------------------- *)

\* a worker has processed a row
RowDone == last_row.w # 0

\* the calls of the row processed last, in order
RowCalls == SubSeq(calls, last_row.first_call, Len(calls))

\* those of one API method
CallsOf(op) == SelectSeq(RowCalls, LAMBDA e : e.op = op)

\* the methods that change the remote system
MutatingOps ==
  {"create_item", "update_item", "create_item_price", "create_item_group",
   "create_attribute", "create_variant"}

\* the row processed last is a row of a live product or price import whose
\* item was looked up
ItemRowChecked ==
  /\ RowDone
  /\ last_row.live
  /\ workers[last_row.w].import_type \in {"artikel", "preise"}
  /\ Len(CallsOf("get_item")) = 1

\* what the lookup said
Exists == CallsOf("get_item")[1].ok

\* the cases of the decision table other than the skips
UpdateOrCreate ==
  /\ (Exists /\ workers[last_row.w].mode # "create")
       => Len(CallsOf("update_item")) = 1 /\ Len(CallsOf("create_item")) = 0
  /\ (~Exists /\ workers[last_row.w].mode # "update")
       => Len(CallsOf("create_item")) = 1 /\ Len(CallsOf("update_item")) = 0

\* the row is one the decision table skips
SkipCase ==
  \/ Exists /\ workers[last_row.w].mode = "create"
  \/ ~Exists /\ workers[last_row.w].mode = "update"

\* C7 as stated: in a live product or price import the action of a record is
\* decided by (exists, mode): skip, exactly one update and no create, or
\* exactly one create and no update; a skipped record sends no mutating
\* request at all and counts as skipped.
C7_SkipSendsNothing ==
  ItemRowChecked =>
    /\ UpdateOrCreate
    /\ SkipCase =>
         /\ last_row.tally = "skipped"
         /\ \A i \in 1..Len(RowCalls) :
              RowCalls[i].op \in MutatingOps => ~RowCalls[i].sent

\* C7 as amended: the same decision table; a skipped record issues no create,
\* update or create_price call and counts as skipped, but the category
\* hierarchy of the record is built before the decision, so a skipped record
\* can have created categories.
C7_SkipCallsNoItemMethod ==
  ItemRowChecked =>
    /\ UpdateOrCreate
    /\ SkipCase =>
         /\ last_row.tally = "skipped"
         /\ Len(CallsOf("create_item")) = 0
         /\ Len(CallsOf("update_item")) = 0
         /\ Len(CallsOf("create_item_price")) = 0

\* C7, the case: a skipped record whose category was created
C7_Witness ==
  /\ ItemRowChecked
  /\ SkipCase
  /\ last_row.tally = "skipped"
  /\ \E i \in 1..Len(RowCalls) :
       RowCalls[i].op = "create_item_group" /\ RowCalls[i].sent /\ RowCalls[i].ok

\* C8: create_item_price is called for a record exactly when its create call
\* succeeded and the record carries standard_rate; the call comes after that
\* create call, and none is made for a record that was updated, skipped or
\* whose create failed.
C8_PriceAfterCreate ==
  RowDone =>
    /\ Len(CallsOf("create_item_price")) =
         IF /\ \E i \in 1..Len(RowCalls) : RowCalls[i].op = "create_item" /\ RowCalls[i].ok
            /\ "standard_rate" \in DOMAIN last_row.item_data
         THEN 1 ELSE 0
    /\ \A q \in 1..Len(RowCalls) :
         RowCalls[q].op = "create_item_price" =>
           /\ \E p \in 1..(q - 1) : RowCalls[p].op = "create_item" /\ RowCalls[p].ok
           /\ Len(CallsOf("update_item")) = 0
           /\ last_row.tally = "success"

\* C8, the case: a record with a net price whose create succeeded
C8_Witness ==
  /\ RowDone
  /\ Len(CallsOf("create_item_price")) = 1
  /\ "standard_rate" \in DOMAIN last_row.item_data

\* the row processed last is a row of a dry run
DryRow == RowDone /\ ~last_row.live

\* the category values of the row processed last make its category step raise
CategoryRaises ==
  /\ workers[last_row.w].import_type \in {"artikel", "preise"}
  /\ \/ PathRaises(last_row.record, last_row.has_api)
     \/ SomeLevelNotStr(CategoryLevels(last_row.record, last_row.has_api))

\* C9 as stated: in a dry run no call of a creating or updating method is
\* issued, and every processed row is logged and counts as success.
C9_DryRunAllSuccess ==
  DryRow =>
    /\ \A i \in 1..Len(RowCalls) : RowCalls[i].op \notin MutatingOps
    /\ last_row.logs # <<>>
    /\ last_row.tally = "success"

\* C9 as amended: in a dry run no call of a creating or updating method is
\* issued; a processed row is logged and counts as success unless its
\* category step raises (a category level or path that is not text), in
\* which case the row is logged as an error and counts as an error.
C9_DryRunNoRemoteCall ==
  DryRow =>
    /\ \A i \in 1..Len(RowCalls) : RowCalls[i].op \notin MutatingOps
    /\ last_row.logs # <<>>
    /\ IF CategoryRaises
       THEN last_row.tally = "errors" /\ last_row.logs[Len(last_row.logs)].error
       ELSE last_row.tally = "success" /\ ~last_row.logs[Len(last_row.logs)].error

\* C9, the case: a dry-run row with a category, the connection established
C9_Witness ==
  /\ DryRow
  /\ last_row.has_api
  /\ "item_group" \in DOMAIN last_row.item_data
  /\ last_row.tally = "success"

\* the progress reports of a worker, in order
ReportsOf(w) == SelectSeq(progress, LAMBDA r : r.w = w)

\* C10: progress is reported exactly once per processed row, in row order,
\* as (index, total), also for a row that raises and for a row rejected by a
\* row-level requirement.
C10_ProgressEveryRow ==
  \A w \in 1..Len(workers) :
    ReportsOf(w) =
      [k \in 1..workers[w].i |-> [w |-> w, index |-> k, total |-> workers[w].total]]

(* --------------------------- claims C11 - C20 ------------------------- *)

\* the end-of-batch lines of a worker ran in this step
EndReported(w) ==
  /\ w \in 1..Len(workers)
  /\ ~workers[w].done
  /\ workers'[w].done

\* the end-of-batch lines are in the log
EndLogged ==
  \E k \in 1..Len(log_entries) : log_entries[k].msg = "=== Import abgeschlossen ==="

\* C11, the rows: a step of a batch attempts the next row and no other, a row
\* counts in exactly one tally, and a batch that reported its end attempts
\* nothing more.
C11_RowsInOrder ==
  \A w \in 1..Len(workers) :
    /\ workers'[w].rows = workers[w].rows
    /\ workers'[w].i \in {workers[w].i, workers[w].i + 1}
    /\ workers'[w].i <= workers'[w].total
    /\ workers[w].done => workers'[w] = workers[w]

\* C11, the end: the final tallies are logged only by the step that ends a
\* batch, which is taken after its last row, once.
C11_EndOnce ==
  /\ \A w \in 1..Len(workers) :
       EndReported(w) => workers[w].i = workers[w].total /\ EndLogged'
  /\ (EndLogged' /\ log_entries' # log_entries) => \E w \in 1..Len(workers) : EndReported(w)

\* a pass of the loop has an outcome for every worker with a row left
RowPossible ==
  \A w \in 1..Len(workers) :
    workers[w].i < Len(workers[w].rows) =>
      ProcessRow(RowStart(w, workers[w].i), field_mappings,
                 workers[w].rows[workers[w].i + 1], workers[w].import_type,
                 workers[w].mode, workers[w].dry_run, api) # {}

\* C11: a batch over n rows always reaches its end: every row is attempted,
\* in order, whatever exceptions or remote rejections earlier rows met, and
\* the final tallies are reported exactly once, after the last row.
C11_BatchReachesEnd ==
  /\ []RowPossible
  /\ [][C11_RowsInOrder /\ C11_EndOnce]_vars
  /\ \A w \in 1..MaxWorkers :
       (Len(workers) >= w) ~> (Len(workers) >= w /\ workers[w].done
                                /\ workers[w].i = workers[w].total)

\* C11, the case: a batch of two rows that reported its end although its
\* first row failed with a remote rejection
C11_Witness ==
  /\ Len(workers) >= 1
  /\ workers[1].done
  /\ workers[1].total = 2
  /\ workers[1].i = 2
  /\ \E k \in 1..Len(calls) :
       calls[k].row = 0 /\ calls[k].op \in {"create_item", "update_item"} /\ ~calls[k].ok

\* the places of the calls of ensure_category_hierarchy among the calls
EnsurePlaces == {p \in 1..Len(calls) : calls[p].op = "ensure_category_hierarchy"}

\* those of the row processed last
RowEnsurePlaces == {q \in EnsurePlaces : q >= last_row.first_call}

\* the calls of get_item_group and create_item_group of the row processed last
GroupCalls ==
  SelectSeq(RowCalls, LAMBDA e : e.op \in {"get_item_group", "create_item_group"})

\* an earlier call p walked the same levels as the call q and found or
\* created every one of them
CalledBefore(p, q) ==
  /\ p < last_row.first_call
  /\ calls[p].ok
  /\ calls[p].levels # <<>>
  /\ calls[p].levels = calls[q].levels

\* the existence checks of the row processed last all said yes
ChecksSucceed == \A i \in 1..Len(GroupCalls) : GroupCalls[i].ok

C14_At(sep, p, i) ==
  /\ i >= 1
  /\ i + Len(sep) - 1 <= Len(p)
  /\ \A j \in 1..Len(sep) : p[i + j - 1] = sep[j]

\* the pieces of a text between the occurrences of a separator, read from
\* left to right: start is the place the piece being read began at
RECURSIVE C14_Pieces(_, _, _, _)
C14_Pieces(p, sep, start, i) ==
  IF i > Len(p) THEN <<SubSeq(p, start, Len(p))>>
  ELSE IF C14_At(sep, p, i)
  THEN <<SubSeq(p, start, i - 1)>> \o C14_Pieces(p, sep, i + Len(sep), i + Len(sep))
  ELSE C14_Pieces(p, sep, start, i + 1)

\* a text without the blanks at its ends
C14_Trimmed(x) ==
  LET inked == {i \in 1..Len(x) : x[i] # " "}
  IN IF inked = {} THEN <<>>
     ELSE SubSeq(x, CHOOSE i \in inked : \A j \in inked : i <= j,
                 CHOOSE i \in inked : \A j \in inked : i >= j)

\* the priority list of the separators
C14_Priority ==
  << <<" ",">"," ">>, <<" ","-",">"," ">>, <<" ",">",">"," ">>, <<" ","/"," ">>,
     <<"/">>, <<">">>, <<"|">> >>

\* what C14 says parse_category_path returns
C14_Expected(p) ==
  LET occurring == {k \in 1..Len(C14_Priority) :
                      \E i \in 1..Len(p) : C14_At(C14_Priority[k], p, i)}
      first == CHOOSE k \in occurring : \A j \in occurring : k <= j
      pieces == C14_Pieces(p, C14_Priority[first], 1, 1)
      trimmed == [n \in 1..Len(pieces) |-> C14_Trimmed(pieces[n])]
  IN IF p = <<>> THEN <<>>
     ELSE IF occurring # {} THEN SelectSeq(trimmed, LAMBDA x : x # <<>>)
     ELSE IF C14_Trimmed(p) # <<>> THEN <<C14_Trimmed(p)>>
     ELSE <<>>

\* the category path of a row of a worker, "" when its record has none
RowPath(w, i) ==
  LET d == BuildRecord(field_mappings, workers[w].rows[i + 1])
  IN IF "category_path" \in DOMAIN d /\ d["category_path"].t = "str"
     THEN d["category_path"].s ELSE <<>>

\* the row processed last has a category path, no level columns, and was
\* processed with a connection: its path was parsed
PathRow ==
  /\ RowDone
  /\ last_row.has_api
  /\ RowPath(last_row.w, last_row.row) # <<>>
  /\ GatherLevels(last_row.record) = <<>>

\* C14: parse_category_path splits on the first separator of its priority
\* list that occurs in the path, and on no other, returns the trimmed
\* segments in order without the empty ones, the single trimmed path when no
\* separator occurs and no level for an empty path, and returns the same for
\* the same path on every call.
C14_ParsedLevels ==
  /\ parse_category_path(<<>>) = <<>>
  /\ PathRow =>
       LET expected == C14_Expected(RowPath(last_row.w, last_row.row))
       IN IF last_row.live
          THEN IF expected = <<>> THEN RowEnsurePlaces = {}
               ELSE /\ Cardinality(RowEnsurePlaces) = 1
                    /\ \A q \in RowEnsurePlaces : calls[q].levels = expected
          ELSE IF expected = <<>> THEN "item_group" \notin DOMAIN last_row.item_data
               ELSE /\ "item_group" \in DOMAIN last_row.item_data
                    /\ last_row.item_data["item_group"] = StrVal(expected[Len(expected)])
  /\ \A p, q \in EnsurePlaces :
       RowPath(calls[p].w, calls[p].row) = RowPath(calls[q].w, calls[q].row)
         => calls[p].levels = calls[q].levels

\* C14, the case: a path with two kinds of separator was split on the one
\* that comes first in the list, in two calls
C14_Witness ==
  /\ PathRow
  /\ last_row.live
  /\ RowPath(last_row.w, last_row.row) = <<"A"," ",">",">"," ","B"," ",">"," ","C">>
  /\ Cardinality(EnsurePlaces) = 2
  /\ \A q \in EnsurePlaces : calls[q].levels = << <<"A"," ",">",">"," ","B">>, <<"C">> >>

(* --------------------- claims on the record of a row ------------------- *)

\* the record of the row processed last as the transform loop leaves it
Transformed ==
  TransformRow(field_mappings, 1, workers[last_row.w].rows[last_row.row + 1],
               EmptyRecord)

\* the transformed value of mapping k for the row processed last
TransformedValue(k) ==
  Transform(field_mappings[k].transform,
            RowValue(workers[last_row.w].rows[last_row.row + 1], field_mappings[k]))

\* mapping k is the last one of its target field
LastOfTarget(k) ==
  \A j \in (k + 1)..Len(field_mappings) :
    field_mappings[j].target_field # field_mappings[k].target_field

\* C15: after the transform of a mapping, its value is in the record under
\* the target field unless it is the empty string; the number 0 and the
\* boolean false are in the record.
C15_ZeroAndFalseKept ==
  RowDone =>
    \A k \in 1..Len(field_mappings) :
      (LastOfTarget(k) /\ TransformedValue(k) # StrVal(<<>>)) =>
        /\ field_mappings[k].target_field \in DOMAIN Transformed
        /\ Transformed[field_mappings[k].target_field] = TransformedValue(k)

\* brutto_to_netto(brutto, tax_rate) of utils.py: round(brutto / (1 +
\* tax_rate / 100), 2), on amounts times Scale and a rate in percent
brutto_to_netto(brutto, tax_rate) ==
  IF brutto = 0 THEN 0
  ELSE IF brutto > 0 THEN RoundDiv(brutto * 100, 100 + tax_rate)
  ELSE 0 - RoundDiv((0 - brutto) * 100, 100 + tax_rate)

\* the row processed last has a gross price that is a number
GrossRow ==
  /\ RowDone
  /\ "standard_rate_brutto" \in DOMAIN Transformed
  /\ ToFloat(Transformed["standard_rate_brutto"]).ok

\* C16: a gross price of the record is stored under the net-price key as
\* round(gross / (1 + r/100), 2) for the configured tax rate r, whatever r
\* is, and the gross-price key is not in the final record.
C16_NetOfConfiguredRate ==
  /\ RowDone => /\ "standard_rate_brutto" \notin DOMAIN last_row.record
                /\ "standard_rate_brutto" \notin DOMAIN last_row.item_data
  /\ GrossRow =>
       /\ "standard_rate" \in DOMAIN last_row.item_data
       /\ last_row.item_data["standard_rate"] =
            FloatVal(brutto_to_netto(ToFloat(Transformed["standard_rate_brutto"]).n,
                                     config.default_tax_rate))

\* INVALID_BARCODES of utils.py
INVALID_BARCODES ==
  {<<"0">>,
   <<"0","0","0","0","0","0","0","0">>,
   <<"0","0","0","0","0","0","0","0","0","0","0","0","0">>,
   <<"4","0","1","7","9","8","0","0","0","0","0","0","0">>}

\* is_valid_barcode(barcode) of utils.py, for a text
is_valid_barcode(barcode) ==
  LET code == Strip(barcode)
  IN /\ barcode # <<>>
     /\ code # <<>> /\ AllDigits(code)
     /\ Len(code) >= MinBarcodeLen
     /\ code \notin INVALID_BARCODES

\* the row processed last has a raw barcode in its record
BarcodeRow == RowDone /\ "barcode" \in DOMAIN Transformed

\* C17: a raw barcode of the record yields a GTIN key only if the trimmed
\* barcode is valid (digits only, at least 8 long, not a placeholder), and
\* the raw barcode key is not in the final record.
C17_GtinOnlyIfValid ==
  /\ RowDone => /\ "barcode" \notin DOMAIN last_row.record
                /\ "barcode" \notin DOMAIN last_row.item_data
  /\ BarcodeRow =>
       ("gtin" \in DOMAIN last_row.record
          => is_valid_barcode(PyStr(Transformed["barcode"])))

\* the number a value of the record stands for, times Scale (in Python
\* 1.0 == 1 == True); a text stands for none
Number(v) == IF v.t = "float" THEN v.n ELSE IF v.t = "str" THEN 0 - 1 ELSE v.n * Scale

\* a transformed value that reads as "active": a text of the active words or
\* the boolean true
LooksActive(v) ==
  \/ v.t = "str" /\ Lower(v.s) \in ActiveWords
  \/ v.t = "bool" /\ v.n = 1

\* the mappings of the row processed last that target the disabled key with
\* a transformed value other than the empty string
DisabledMappings ==
  {k \in 1..Len(field_mappings) :
     /\ field_mappings[k].target_field = "disabled"
     /\ LastOfTarget(k)
     /\ TransformedValue(k) # StrVal(<<>>)}

\* C18: for a mapping on the disabled key the final record has disabled = 0
\* if the transformed value is an active-looking text or the boolean true
\* and disabled = 1 for every other value, whatever the transform.
C18_DisabledInverted ==
  RowDone =>
    \A k \in DisabledMappings :
      /\ "disabled" \in DOMAIN last_row.record
      /\ Number(last_row.record["disabled"]) =
           IF LooksActive(TransformedValue(k)) THEN 0 ELSE Scale

\* the levels of the row processed last as the category resolution is to
\* gather them: the parsed category_path if it yields a level, else the
\* category_level_1..4 values that are present, in ascending order
ResolvedLevels ==
  LET d == last_row.record
      parsed_levels ==
        IF "category_path" \in DOMAIN d /\ d["category_path"].t = "str"
        THEN parse_category_path(d["category_path"].s) ELSE <<>>
  IN IF parsed_levels # <<>>
     THEN [i \in 1..Len(parsed_levels) |-> StrVal(parsed_levels[i])]
     ELSE GatherLevels(d)

\* the row processed last is a row of a product import with at least one
\* level, all of them texts
LevelRow ==
  /\ RowDone
  /\ workers[last_row.w].import_type \in {"artikel", "preise"}
  /\ ResolvedLevels # <<>>
  /\ ~SomeLevelNotStr(ResolvedLevels)
  /\ "category_path" \in DOMAIN last_row.record => last_row.record["category_path"].t = "str"

\* C19: in a product import the levels of a row are the parsed category_path
\* when it yields a level, else the level columns in ascending order; a live
\* run with a level sets item_group to what ensure_category_hierarchy
\* returns for these levels; no level key and no category_path is left in
\* the final record.
C19_LevelsResolved ==
  /\ (RowDone /\ workers[last_row.w].import_type \in {"artikel", "preise"}) =>
       DOMAIN last_row.item_data \cap
         ({LevelKeys[i] : i \in 1..Len(LevelKeys)} \cup {"category_path"}) = {}
  /\ (LevelRow /\ last_row.live) =>
       /\ Cardinality(RowEnsurePlaces) = 1
       /\ \A q \in RowEnsurePlaces :
            /\ calls[q].levels = CleanLevels(ResolvedLevels)
            /\ "item_group" \in DOMAIN last_row.item_data
            /\ last_row.item_data["item_group"] = StrVal(calls[q].name)
  /\ (LevelRow /\ ~last_row.live) =>
       /\ "item_group" \in DOMAIN last_row.item_data
       /\ last_row.item_data["item_group"] = ResolvedLevels[Len(ResolvedLevels)]

\* the row processed last is a dry-run row of a product import whose record
\* yields at least one level, all of them texts
DryLevelRow == LevelRow /\ ~last_row.live

\* the hierarchy lines in the log of the row processed last
HierarchyLines ==
  SelectSeq(last_row.logs, LAMBDA e : e.msg = "[DRY] Kategorie-Hierarchie")

\* C20: in a dry run of a product import every row whose record yields a
\* level, from level columns or from a category_path, gets the deepest level
\* as its item_group and the intended hierarchy in the log, with or without
\* a connection.
C20_DryRunDeepestLevel ==
  DryLevelRow =>
    /\ "item_group" \in DOMAIN last_row.item_data
    /\ last_row.item_data["item_group"] = ResolvedLevels[Len(ResolvedLevels)]
    /\ Len(HierarchyLines) = 1
    /\ RowEnsurePlaces = {}

(* ------------------------- claims C21 to C30 --------------------------- *)

\* the target fields the catalog of an import type marks "required": True
CatalogRequired(type) ==
  IF type = "kategorien" THEN {"item_group_name"}
  ELSE IF type = "attribute" THEN {"attribute_name"}
  ELSE IF type = "varianten" THEN {"item_code", "variant_of"}
  ELSE {"item_code", "item_name"}

\* data is loaded, a mapping is defined, and every required field of the
\* catalog of the import type is the target of a mapping
StartComplete ==
  /\ source_data # <<>>
  /\ field_mappings # <<>>
  /\ CatalogRequired(import_type)
       \subseteq {field_mappings[i].target_field : i \in 1..Len(field_mappings)}

\* the messages start_import reports a problem with
StartProblems == {"Keine Daten!", "Keine Mappings!", "Pflichtfelder fehlen"}

\* C21: start_import starts the batch only if data is loaded, a mapping is
\* defined and every target field the catalog of the import type marks as
\* required is mapped; otherwise it reports the problem, no row is processed
\* and no remote call is made.
C21_StartOnlyWhenComplete ==
  [][/\ Len(workers') > Len(workers) => StartComplete
     /\ ~StartComplete =>
          /\ UNCHANGED <<workers, calls, progress, remote_items, remote_groups>>
          /\ \A i \in 1..Len(log_entries') :
               \/ log_entries'[i].msg \in {"Verbindung OK", "Verbindungsfehler"}
               \/ log_entries'[i].error /\ log_entries'[i].msg \in StartProblems]_vars

\* the step is a pass of the loop of worker w in a live import of the type
RowStep(w, type) ==
  /\ w <= Len(workers)
  /\ workers'[w].i = workers[w].i + 1
  /\ workers[w].import_type = type
  /\ ~workers[w].dry_run

\* the record of the row worker w is at
NextRecord(w) == BuildRecord(field_mappings, workers[w].rows[workers[w].i + 1])

\* the record has a key with a value that is not empty
Has(d, k) == k \in DOMAIN d /\ Truthy(d[k])

\* the calls a step adds
NewCalls == SubSeq(calls', Len(calls) + 1, Len(calls'))

\* the step adds no call of the method
NoNewCall(op) == \A q \in 1..Len(NewCalls) : NewCalls[q].op # op

\* the step counts the row of worker w as an error, and as nothing else,
\* and the worker goes on
CountedAsError(w) ==
  /\ workers'[w].errors = workers[w].errors + 1
  /\ workers'[w].success = workers[w].success
  /\ workers'[w].skipped = workers[w].skipped
  /\ ~workers'[w].done

\* the step counts the row of worker w as a success, and as nothing else
CountedAsSuccess(w) ==
  /\ workers'[w].errors = workers[w].errors
  /\ workers'[w].success = workers[w].success + 1
  /\ workers'[w].skipped = workers[w].skipped

VariantComplete(d) ==
  /\ Has(d, "item_code")
  /\ Has(d, "variant_of")
  /\ \/ \E k \in {"attribute_color", "attribute_size", "attribute_material"} : Has(d, k)
     \/ \E k \in {"attribute_1", "attribute_2", "attribute_3"} :
          Has(d, k) /\ \E j \in 1..Len(PyStr(d[k])) : PyStr(d[k])[j] = ":"

SameTemplate(t, u) ==
  /\ u.name = t.name
  /\ u.import_type = t.import_type
  /\ u.file_format = t.file_format
  /\ u.csv_delimiter = t.csv_delimiter
  /\ u.csv_encoding = t.csv_encoding
  /\ u.skip_first_row = t.skip_first_row
  /\ u.created_at = t.created_at
  /\ Len(u.mappings) = Len(t.mappings)
  /\ \A i \in 1..Len(t.mappings) :
       /\ u.mappings[i].source_column = t.mappings[i].source_column
       /\ u.mappings[i].target_field = t.mappings[i].target_field
       /\ u.mappings[i].transform = t.mappings[i].transform
       /\ u.mappings[i].default_value = t.mappings[i].default_value

LoadedMappings == from_dict(template_file).mappings

\* the step loads the template of the file
TemplateLoad == last'.op = "on_template_loaded" /\ steps' = steps + 1

\* C25: after a template is loaded the active mappings are exactly the
\* mappings of the template, each with its source column, target field,
\* transform and default value, with or without a source file loaded.
C25_MappingsAreTheTemplates ==
  [][TemplateLoad =>
       /\ Len(field_mappings') = Len(LoadedMappings)
       /\ \A i \in 1..Len(LoadedMappings) :
            /\ HasKey(field_mappings', LoadedMappings[i].source_column)
            /\ Get(field_mappings', LoadedMappings[i].source_column) = LoadedMappings[i]]_vars

\* the workers that have not reached the end of their batch
Running == {w \in 1..Len(workers) : ~workers[w].done}

\* C26: at most one batch worker processes rows at any time, and the calls of
\* one batch are all made before the first call of the next, whatever the
\* user does while a batch runs (start an import, reload or pick a file).
C26_OneWorkerAtATime ==
  /\ Cardinality(Running) <= 1
  /\ \A p, q \in 1..Len(calls) : p < q => calls[p].w <= calls[q].w

\* the mappings are as the auto-mapping of the file export.csv made them
ScenarioAutoMapped ==
  /\ source_data = <<ScenarioRow>>
  /\ field_mappings = CreateRows(ScenarioColumns, 1, <<>>)

\* C27: the row of export.csv (Artikel-Nr SKU1, VK Brutto 119,00, EAN
\* 4006381333931, Kategorie "Möbel > Regale"), auto-mapped, at a tax rate of
\* 19 gives the record item_code SKU1, standard_rate 100.0, gtin
\* 4006381333931, item_group Regale; a live upsert with a connection to a
\* remote system without SKU1 makes one create_item and one
\* create_item_price call and counts one success.
C27_EndToEndScenario ==
  ScenarioAutoMapped =>
    /\ LET d == BuildRecord(field_mappings, ScenarioRow) IN
         /\ Has(d, "item_code") /\ d["item_code"] = StrVal(<<"S","K","U","1">>)
         /\ Has(d, "standard_rate") /\ d["standard_rate"] = FloatVal(100 * Scale)
         /\ Has(d, "gtin")
         /\ d["gtin"] = StrVal(<<"4","0","0","6","3","8","1","3","3","3","9","3","1">>)
    /\ (/\ RowDone /\ last_row.live /\ last_row.has_api
        /\ \A q \in 1..Len(RowCalls) : RowCalls[q].op \in MutatingOps => RowCalls[q].ok) =>
         /\ Has(last_row.item_data, "item_group")
         /\ last_row.item_data["item_group"] = StrVal(<<"R","e","g","a","l","e">>)
         /\ Len(CallsOf("create_item")) = 1
         /\ Len(CallsOf("create_item_price")) = 1
         /\ workers[last_row.w].success = 1

\* parse_number of utils.py for a text, with allow_empty false: the empty
\* and the unparsable text give 0.0
parse_number(value) ==
  LET str_val == RemoveChar(Strip(PyStr(value)), " ")
      has_comma == \E i \in 1..Len(str_val) : str_val[i] = ","
      has_dot == \E i \in 1..Len(str_val) : str_val[i] = "."
      text == IF has_comma /\ has_dot
              THEN ReplaceChar(RemoveChar(str_val, "."), ",", ".")
              ELSE IF has_comma THEN ReplaceChar(str_val, ",", ".")
              ELSE str_val
  IN IF value.t # "str" THEN FloatVal(Number(value))
     ELSE IF Strip(PyStr(value)) = <<>> THEN FloatVal(0)
     ELSE FloatVal(ParseFloat(text).n)

\* the mappings with the number transform
NumberMappings == {k \in 1..Len(field_mappings) : field_mappings[k].transform = "number"}

\* C28: the number transform of a row gives what parse_number gives with the
\* fallback 0.0: dots are thousands separators when a comma occurs too, a
\* comma is the decimal separator, an unparsable text gives 0.0.
C28_NumberIsParseNumber ==
  RowDone =>
    \A k \in NumberMappings :
      TransformedValue(k) =
        parse_number(RowValue(workers[last_row.w].rows[last_row.row + 1], field_mappings[k]))

\* the calls of ensure_category_hierarchy noted in calls
EnsureEntries == {e \in 1..Len(calls) : calls[e].op = "ensure_category_hierarchy"}

\* the calls a row made before its ensure_category_hierarchy returned
Walk(e) ==
  SelectSeq(SubSeq(calls, 1, e - 1),
            LAMBDA x : x.w = calls[e].w /\ x.row = calls[e].row)

\* the existence checks of the loop: a get_item_group that is not the one
\* create_item_group makes, which the note of create_item_group follows
Visits(S) ==
  {q \in 1..Len(S) :
     /\ S[q].op = "get_item_group"
     /\ ~(q < Len(S) /\ S[q + 1].op = "create_item_group")}

\* the position in the levels of the level that call q of the walk is for
VisitNo(S, q) == Cardinality({v \in Visits(S) : v <= q})

\* the walk S is one of the levels L as C29 says
WalkAsClaimed(S, L) ==
  /\ \A i \in 1..Len(L) : L[i] # <<>> /\ Strip(L[i]) = L[i]
  /\ \/ Cardinality(Visits(S)) = Len(L)
     \/ S # <<>> /\ S[Len(S)].op = "create_item_group" /\ ~S[Len(S)].ok
  /\ \A q \in 1..Len(S) :
       LET i == VisitNo(S, q) IN
         /\ S[q].op \in {"get_item_group", "create_item_group"}
         /\ i \in 1..Len(L)
         /\ S[q].name = L[i]
         /\ S[q].op = "create_item_group" =>
              /\ \E v \in Visits(S) : v < q /\ VisitNo(S, v) = i /\ ~S[v].ok
              /\ S[q].parent = IF i = 1 THEN default_item_group ELSE L[i - 1]
              /\ i > 1 => \E p \in 1..(q - 1) : VisitNo(S, p) = i - 1 /\ S[p].ok
              /\ \A p \in 1..Len(S) :
                   (S[p].op = "create_item_group" /\ VisitNo(S, p) = i) => p = q

\* C29: ensure_category_hierarchy visits the trimmed levels that are not
\* empty from top to bottom; it calls create only for a level whose check
\* failed, with the level before it, which existed or was created, as the
\* parent, or the default group for the first level; and at most once for a
\* level.
C29_WalkTopToBottom ==
  \A e \in EnsureEntries : WalkAsClaimed(Walk(e), calls[e].levels)

\* a walk of three levels that found the first, created the second under it
\* and the third under the second
C29_Witness ==
  \E e \in EnsureEntries :
    LET S == Walk(e) IN
      /\ Len(calls[e].levels) = 3
      /\ Cardinality(Visits(S)) = 3
      /\ S[1].ok
      /\ \E q, p \in 1..Len(S) :
           /\ q < p
           /\ S[q].op = "create_item_group" /\ S[q].sent /\ S[q].ok
           /\ S[q].parent = calls[e].levels[1]
           /\ S[p].op = "create_item_group" /\ S[p].sent /\ S[p].ok
           /\ S[p].parent = calls[e].levels[2]

\* the lookups of existence
LookupOps == {"get_item", "get_item_group"}

\* the step is one of an import thread
ImportStep == workers' # workers

\* C30: after a lookup of an item code or a group name has returned a
\* record in a run, every later lookup of that name in the run says that it
\* exists and sends no request, whatever became of the remote record; and no
\* step of the import removes an entry of a cache.
C30_CachedForTheRun ==
  /\ [](\A p, q \in 1..Len(calls) :
          (/\ p < q
           /\ calls[p].op \in LookupOps /\ calls[q].op = calls[p].op
           /\ calls[q].name = calls[p].name /\ calls[q].w = calls[p].w
           /\ calls[p].ok) =>
            calls[q].ok /\ ~calls[q].sent)
  /\ [][ImportStep => /\ item_cache \subseteq item_cache'
                      /\ item_group_cache \subseteq item_group_cache']_vars

(* --------------------- claims on the alias of the description ---------- *)

\* C31: after the steps on the record, the key description_html is not in
\* it; if description was not there, the HTML value is under description,
\* and if both were there, description keeps its value and the HTML value
\* is gone.
C31_HtmlDescriptionAlias ==
  RowDone =>
    /\ "description_html" \notin DOMAIN last_row.record
    /\ "description_html" \notin DOMAIN last_row.item_data
    /\ "description_html" \in DOMAIN Transformed =>
         /\ "description" \in DOMAIN last_row.record
         /\ last_row.record["description"] =
              IF "description" \in DOMAIN Transformed THEN Transformed["description"]
              ELSE Transformed["description_html"]

\* a row with both descriptions whose record has the plain one
C31_Witness ==
  /\ RowDone
  /\ "description_html" \in DOMAIN Transformed
  /\ "description" \in DOMAIN Transformed
  /\ Transformed["description"] # Transformed["description_html"]
  /\ last_row.record["description"] = Transformed["description"]
  /\ "description_html" \notin DOMAIN last_row.record

(* ------------------------- claims on the tallies ----------------------- *)

\* the rows a worker has counted
Counted(wk) == wk.success + wk.errors + wk.skipped

\* C32: at the end of a batch of n rows, success + errors + skipped = n; a
\* row is counted in one tally and no other, for every import type, mode
\* and outcome, a row that raises after a remote call has succeeded too.
C32_TalliesAddUp ==
  \A w \in 1..Len(workers) :
    /\ Counted(workers[w]) = workers[w].i
    /\ workers[w].done => Counted(workers[w]) = workers[w].total

(* ------------------------ claims on the mappings ----------------------- *)

\* C33: after any sequence of mapping operations the target field of every
\* mapping is a key of the catalog of the selected import type; the
\* auto-mapping by rules assigns no target the catalog does not hold.
C33_TargetsInCatalog ==
  \A i \in 1..Len(field_mappings) :
    field_mappings[i].target_field \in TargetFields(import_type)

\* C34: the two auto-mappings by rules agree: for every column of the file,
\* the target the mapping row gets when the file is loaded is the target
\* the auto-map button computes for the column.
C34_AutoMappingsAgree ==
  \A i \in 1..Len(source_columns) :
    RowAutoTable[source_columns[i]] = ActionAutoTable[source_columns[i]]

(* ----------------------- claims on the create call --------------------- *)

\* C35: in a live import of products create_item is called for an item code
\* only if the remote system holds no item of that code when the existence
\* is checked, also when the lookup fails with a network or HTTP error.
C35_CreateOnlyIfAbsent ==
  [][\A q \in 1..Len(NewCalls) :
       (NewCalls[q].op = "create_item" /\ NewCalls[q].sent) =>
         NewCalls[q].name \notin remote_items]_vars

\* worker w has made a create_item call for the code that succeeded
CreatedBefore(w, item_code) ==
  \E p \in 1..Len(calls) :
    /\ calls[p].op = "create_item" /\ calls[p].ok
    /\ calls[p].w = w /\ calls[p].name = item_code

\* C36: in a live run, after a create_item call for an item code has
\* succeeded, no later row of that code that comes to the existence check
\* makes another create_item call: in mode upsert the row makes an
\* update_item call, in mode create it is skipped.
C36_NoSecondCreate ==
  [][\A w \in 1..MaxThreads :
       (/\ RowStep(w, "artikel") \/ RowStep(w, "preise")
        /\ Has(NextRecord(w), "item_code")
        /\ CreatedBefore(w, PyStr(NextRecord(w)["item_code"]))
        /\ \E q \in 1..Len(NewCalls) : NewCalls[q].op = "get_item") =>
         /\ NoNewCall("create_item")
         /\ workers[w].mode = "upsert" =>
              \E q \in 1..Len(NewCalls) : NewCalls[q].op = "update_item"
         /\ workers[w].mode = "create" =>
              workers'[w].skipped = workers[w].skipped + 1]_vars

(* ---------------- claims on the mappings of a running batch ------------ *)

\* the outcomes of the row worker w is at, had it the mappings that
\* start_import validated for the batch
ValidatedOutcomes(w) ==
  ProcessRow(RowStart(w, workers[w].i), workers[w].validated,
             workers[w].rows[workers[w].i + 1], workers[w].import_type,
             workers[w].mode, workers[w].dry_run, api)

\* C37: every row of a batch is transformed with the mappings that
\* start_import validated; mapping operations during the batch change no
\* record of a remaining row and turn no row into an error.
C37_RowsUseValidatedMappings ==
  [][\A w \in 1..MaxThreads :
       (w <= Len(workers) /\ workers'[w].i = workers[w].i + 1) =>
         /\ last_row'.record =
              BuildRecord(workers[w].validated, workers[w].rows[workers[w].i + 1])
         /\ \E res \in ValidatedOutcomes(w) : res.tally = last_row'.tally]_vars

(* ------------------------ claims on the success ------------------------ *)

\* the methods whose ok makes a row a success
SuccessOps ==
  {"create_item", "update_item", "create_item_group", "create_attribute", "create_variant"}

\* the step is a pass of the loop of worker w in a live import that counts
\* the row as a success
LiveSuccess(w) ==
  /\ w <= Len(workers)
  /\ workers'[w].i = workers[w].i + 1
  /\ ~workers[w].dry_run
  /\ workers'[w].success = workers[w].success + 1

\* the step adds a call of one of the methods that returned ok
NewOkCall == \E q \in 1..Len(NewCalls) : NewCalls[q].op \in SuccessOps /\ NewCalls[q].ok

\* C38 as stated: in a live run a row counts as a success only after a
\* create, update, category, attribute or variant call of the row has
\* returned ok; a live run without a connection counts no row as a success.
C38_SuccessNeedsOkCall ==
  [][\A w \in 1..MaxThreads : LiveSuccess(w) => NewOkCall]_vars

\* with a connection a live row counts as a success only after such a
\* call has returned ok; without one the row makes no call and counts as
\* a success unless it raises
SuccessNeedsOkCallWhenConnected ==
  [][\A w \in 1..MaxThreads :
       /\ (LiveSuccess(w) /\ api) => NewOkCall
       /\ (w <= Len(workers) /\ workers'[w].i = workers[w].i + 1
           /\ ~workers[w].dry_run /\ ~api) =>
            /\ NewCalls = <<>>
            /\ last_row'.path = "raised" \/ CountedAsSuccess(w)]_vars

(* --------------- claims on attribute and variant imports --------------- *)

\* the mappings are built from the catalog of the import type and every
\* field the catalog marks as required is the target of one of them
OwnCatalogComplete ==
  /\ field_mappings # <<>>
  /\ \A i \in 1..Len(field_mappings) :
       field_mappings[i].target_field \in TargetFields(import_type)
  /\ CatalogRequired(import_type)
       \subseteq {field_mappings[i].target_field : i \in 1..Len(field_mappings)}

\* C39: for an attribute or variant import with loaded data, a click on
\* start with mappings from the kind's own catalog that cover every
\* required field of the catalog is accepted: the batch is started.
C39_OwnCatalogAccepted ==
  [][(/\ start_import
      /\ import_type \in {"attribute", "varianten"}
      /\ source_data # <<>>
      /\ OwnCatalogComplete)
       => Len(workers') = Len(workers) + 1]_vars
====
